---- MODULE Spec2Model ----
(***************************************************************************)
(* Model of the admission pipeline and of the durable-write subsystem of   *)
(* @chaeco/logger:                                                         *)
(*   Logger      (core/logger.ts)       level, sampling, rate limit, filter*)
(*   NodeWriter  (file/node-writer.ts)  rotation, retention, retried append*)
(*   AsyncQueue  (file/async-queue.js)  batching queue with overflow policy*)
(*   FileManager (file/file-manager.ts) composition and lazy initialisation*)
(*                                                                         *)
(* JavaScript runs the code single-threaded.  A step of the model is the   *)
(* code that runs between two suspension points (await) of one call.       *)
(* Promise continuations are microtasks; timers (setInterval, setTimeout)  *)
(* are macrotasks and run only when no microtask is pending.               *)
(***************************************************************************)
EXTENDS Integers, Sequences, FiniteSets, TLC

\* ------------------------------------------------------------------ bounds
MaxDay == 1          \* calendar days the model walks through (0..MaxDay)
MaxMsgs == 3         \* messages handed to the queue in one behaviour
MaxWrites == 3       \* messages written without a queue in one behaviour
MaxLen == 1          \* message length in bytes (0..MaxLen)
MaxInits == 2        \* runs of NodeWriter.init() in one behaviour
MaxLogs == 3         \* log calls of a Logger without a FileManager
MaxTicks == 2        \* milliseconds the clock of that Logger advances
MaxFilters == 2      \* predicates in the filter chain

Max(a, b) == IF a >= b THEN a ELSE b
Min(a, b) == IF a <= b THEN a ELSE b

VARIABLES
    \* --- environment
    today,            \* the calendar day dayjs().format('YYYY-MM-DD') returns
    files,            \* the log directory: file name -> size in bytes
    \* --- NodeWriter
    options,          \* Required<FileOptions>
    currentFilePath,
    currentFileSize,
    fileIndex,
    writerCalls,      \* write()/writeBatch() invocations that have not settled
    compressJobs,     \* compressOldLogs() invocations that have not finished
    \* --- AsyncQueue
    asyncOptions,     \* Required<AsyncWriteOptions>
    queue,
    isWriting,
    flushTimer,       \* TRUE while the setInterval timer is armed
    enqueueCalls,     \* enqueue() invocations suspended at an await
    stopCall,         \* the stop() invocation: pc, attempts, maxAttempts
    \* --- FileManager
    isInitialized,
    initError,
    \* --- environment and history of initialisation
    dirExists,        \* the log directory exists
    inits,            \* number of runs of NodeWriter.init() so far
    \* --- Logger
    level,
    sampling,         \* Required<SamplingOptions>
    rateLimit,        \* Required<RateLimitOptions>
    filter,           \* Required<FilterOptions>, filters as a list of names
    fileManager,      \* TRUE when the Logger has a FileManager
    rlWindowStart,
    rlWindowCount,
    rlEventEmittedInWindow,
    metrics,          \* PerformanceMetrics (the counters)
    metricsN,
    now,              \* the clock Date.now() reads, in milliseconds
    \* --- the application
    budget,           \* number of messages the application writes
    \* --- history (not program state)
    issued,           \* number of messages passed to FileManager.write so far
    appended,         \* every successful append, in order: [m, file, bytes]
    dropped,          \* ids discarded by the drop policy
    hist,             \* flags recording what has happened so far
    logHist           \* what the log calls have done so far

envVars == <<today, files>>
optVars == <<options, asyncOptions, budget>>
writerVars == <<currentFilePath, currentFileSize, fileIndex>>
queueVars == <<queue, isWriting, flushTimer, enqueueCalls, stopCall>>
fmVars == <<isInitialized, initError, dirExists, inits>>
gateVars == <<level, sampling, rateLimit, filter, fileManager, now>>
logVars == <<gateVars, rlWindowStart, rlWindowCount, rlEventEmittedInWindow,
             metrics, metricsN, logHist>>

vars == <<today, files, options, currentFilePath, currentFileSize, fileIndex,
          writerCalls, compressJobs, asyncOptions, queue, isWriting, flushTimer,
          enqueueCalls, stopCall, isInitialized, initError, dirExists, inits,
          budget, issued, appended, dropped, hist, level, sampling,
          rateLimit, filter, fileManager, rlWindowStart, rlWindowCount,
          rlEventEmittedInWindow, metrics, metricsN, now, logHist>>

\* ------------------------------------------------------------ file names
\* <prefix>-<YYYY-MM-DD>.log, <prefix>-<YYYY-MM-DD>.<index>.log, and the same
\* with .gz appended.  A name is the triple the code parses out of it.
FileName(d, i, z) == [day |-> d, idx |-> i, gz |-> z]

\* currentFilePath = '' before the first initialisation: it embeds no date.
NoPath == FileName(-1, -1, FALSE)

getIndexedFilePath(day, idx) == FileName(day, idx, FALSE)

\* Buffer.byteLength(message + '\n')
ContentBytes(len) == len + 1

\* Buffer.byteLength(messages.join('\n') + '\n') for a non-empty batch
RECURSIVE BatchBytes(_)
BatchBytes(msgs) ==
    IF msgs = <<>> THEN 0
    ELSE ContentBytes(Head(msgs).len) + BatchBytes(Tail(msgs))

\* ------------------------------------------------------------ NodeWriter
\* mutants of shouldRotateFile: the test off by one in either direction
shouldRotateFileStrict(size, o) == size > o.maxSize
shouldRotateFileEarly(size, o) == size + 1 >= o.maxSize

shouldRotateFile(size, o) == size >= o.maxSize

RECURSIVE ScanIndex(_, _, _, _)
ScanIndex(fs, day, i, maxIndex) ==
    IF i < maxIndex /\ getIndexedFilePath(day, i) \in DOMAIN fs
    THEN ScanIndex(fs, day, i + 1, maxIndex)
    ELSE i

\* The writer fields after initializeCurrentFile().
initializeCurrentFile(fs, day, o) ==
    LET maxIndex == Max(o.maxFiles * 2, 100)
        n == ScanIndex(fs, day, 0, maxIndex)
    IN  IF n > 0
        THEN LET p == getIndexedFilePath(day, n - 1)
             IN  IF shouldRotateFile(fs[p], o)
                 THEN [fileIndex |-> n,
                       currentFilePath |-> getIndexedFilePath(day, n),
                       currentFileSize |-> 0]
                 ELSE [fileIndex |-> n - 1,
                       currentFilePath |-> p,
                       currentFileSize |-> fs[p]]
        ELSE [fileIndex |-> 0,
              currentFilePath |-> getIndexedFilePath(day, 0),
              currentFileSize |-> 0]

\* The writer fields after checkDateRotation().
checkDateRotation(w, fs, day, o) ==
    IF w.currentFilePath.day # day THEN initializeCurrentFile(fs, day, o) ELSE w

\* Array.prototype.sort is stable: insertion of x after every element whose
\* key is not smaller keeps the listing order among equal dates.
RECURSIVE InsertByDate(_, _)
InsertByDate(x, s) ==
    IF s = <<>> THEN <<x>>
    ELSE IF Head(s).day >= x.day THEN <<Head(s)>> \o InsertByDate(x, Tail(s))
    ELSE <<x>> \o s

RECURSIVE SortByDateDesc(_)
SortByDateDesc(s) ==
    IF s = <<>> THEN <<>>
    ELSE InsertByDate(s[Len(s)], SortByDateDesc(SubSeq(s, 1, Len(s) - 1)))

\* Every order of the names in S.
RECURSIVE Orders(_)
Orders(S) ==
    IF S = {} THEN {<<>>}
    ELSE UNION {{<<x>> \o s : s \in Orders(S \ {x})} : x \in S}

\* fs.readdirSync returns the names in an order the platform chooses.
Listings(fs) == Orders(DOMAIN fs)

\* fs.readdirSync (or fs.statSync) throws: what cleanupOldFiles catches.
ReaddirFails == <<NoPath>>


\* mutant of Slice: one file more is kept
SliceLate(sorted, n) == {sorted[i] : i \in (n + 2)..Len(sorted)}

\* files.slice(maxFiles): the entries after the first n
Slice(sorted, n) == {sorted[i] : i \in (n + 1)..Len(sorted)}

\* mutant of Expired: files expire a day early
ExpiredEarly(f, day, o, tod) == 2 * (day - f.day) + tod > 2 * o.maxAge - 2

\* Date.now() - ageBasis > maxAgeMs, in half days: ageBasis is midnight of the
\* date in the file name
Expired(f, day, o, tod) == 2 * (day - f.day) + tod > 2 * o.maxAge

\* The directory after cleanupOldFiles().  listing is what readdirSync
\* returned; tod is the time of day of Date.now() in half days (0 = midnight).
\* When readdirSync throws the catch leaves the directory as it is.
cleanupOldFiles(fs, day, o, listing, tod) ==
    LET sorted == SortByDateDesc(listing)
        beyond == IF Len(sorted) > o.maxFiles
                  THEN Slice(sorted, o.maxFiles)
                  ELSE {}
        expired == {f \in DOMAIN fs : Expired(f, day, o, tod)}
        toDelete == beyond \cup expired
    IN  IF listing = ReaddirFails THEN fs
        ELSE [f \in DOMAIN fs \ toDelete |-> fs[f]]

\* mutant of Compressible: the date of the file is not looked at
CompressibleAnyDay(f, jobDay, cur) == ~f.gz /\ f # cur

\* compressOldLogs: fileDate && fileDate !== today && file.path !==
\* this.currentFilePath, for a name that ends in .log
Compressible(f, jobDay, cur) == ~f.gz /\ f.day # jobDay /\ f # cur

\* The for loop of compressOldLogs moves on to the next file it will compress.
RECURSIVE NextCompressible(_, _, _)
NextCompressible(todo, jobDay, cur) ==
    IF todo = <<>> THEN <<>>
    ELSE IF Compressible(Head(todo), jobDay, cur) THEN todo
    ELSE NextCompressible(Tail(todo), jobDay, cur)

RECURSIVE Remaining(_, _)
Remaining(listing, fs) ==
    IF listing = <<>> THEN <<>>
    ELSE IF Head(listing) \in DOMAIN fs
         THEN <<Head(listing)>> \o Remaining(Tail(listing), fs)
         ELSE Remaining(Tail(listing), fs)

\* The synchronous prefix of compressOldLogs(): the directory is listed and
\* the first file to compress is being read.  No invocation stays behind when
\* there is nothing to compress.  skipped (history) holds the files whose
\* compression failed.
compressOldLogs(fs, day, cur, listing) ==
    LET todo == NextCompressible(Remaining(listing, fs), day, cur)
    IN  IF todo = <<>> THEN <<>>
        ELSE <<[today |-> day, todo |-> todo, phase |-> "read", size |-> 0,
                skipped |-> {}]>>

\* mutant of rotateFile: the size is not reset
rotateFileKeepsSize(w, day) ==
    [fileIndex |-> w.fileIndex + 1,
     currentFilePath |-> getIndexedFilePath(day, w.fileIndex + 1),
     currentFileSize |-> w.currentFileSize]

\* The writer fields after rotateFile() (the directory is cleaned by
\* cleanupOldFiles, which rotateFile calls last).
rotateFile(w, day) ==
    [fileIndex |-> w.fileIndex + 1,
     currentFilePath |-> getIndexedFilePath(day, w.fileIndex + 1),
     currentFileSize |-> 0]

\* fs.appendFileSync(path, content): creates the file when it is missing.
appendFileSync(fs, p, bytes) ==
    IF p \in DOMAIN fs THEN [fs EXCEPT ![p] = @ + bytes]
    ELSE fs @@ (p :> bytes)

\* mutant of AttemptAllowed: the loop stops one attempt early
AttemptAllowedStrict(i, o) == i < o.retryCount

\* appendToFileWithRetry: for (let i = 0; i <= retryCount; i++)
AttemptAllowed(i, o) == i <= o.retryCount

\* appendToFileWithRetry: setTimeout(r, retryDelay * i) before attempt i > 0
RetryDelay(i, o) == o.retryDelay * i

\* The synchronous prefix of write()/writeBatch(): checkDateRotation, the
\* rotation test (rotateFile, cleanupOldFiles, compressOldLogs), and attempt
\* 0 of appendToFileWithRetry.  ok says whether that appendFileSync succeeds.
\* The result holds the writer fields, the directory, the compression
\* started and where the invocation is suspended; from is the path that was
\* full when the write rotated, cleanFailed says that cleanup threw, missed
\* that it threw with something to delete, deleted holds the names cleanup
\* unlinked.
WriterBegin(w, fs, day, o, bytes, ok, listing, tod) ==
    LET w1 == checkDateRotation(w, fs, day, o)
        rot == shouldRotateFile(w1.currentFileSize, o)
        w2 == IF rot THEN rotateFile(w1, day) ELSE w1
        fs2 == IF rot THEN cleanupOldFiles(fs, day, o, listing, tod) ELSE fs
        job == IF rot /\ o.compress /\ listing # ReaddirFails
               THEN compressOldLogs(fs2, day, w2.currentFilePath, listing)
               ELSE <<>>
        from == IF rot THEN w1.currentFilePath ELSE NoPath
        cleanFailed == rot /\ listing = ReaddirFails
        missed == /\ cleanFailed
                  /\ \/ Cardinality(DOMAIN fs) > o.maxFiles
                     \/ \E f \in DOMAIN fs : Expired(f, day, o, tod)
    IN  IF ok
        THEN [w |-> w2, fs |-> appendFileSync(fs2, w2.currentFilePath, bytes),
              rotated |-> rot, job |-> job, st |-> "appended", attempt |-> 0,
              delay |-> 0,
              deleted |-> DOMAIN fs \ DOMAIN fs2, missed |-> missed,
              file |-> w2.currentFilePath, from |-> from,
              cleanFailed |-> cleanFailed]
        ELSE [w |-> initializeCurrentFile(fs2, day, o), fs |-> fs2,
              rotated |-> rot, job |-> job,
              deleted |-> DOMAIN fs \ DOMAIN fs2, missed |-> missed,
              st |-> IF AttemptAllowed(1, o) THEN "retry" ELSE "failed",
              attempt |-> IF AttemptAllowed(1, o) THEN 1 ELSE 0,
              delay |-> IF AttemptAllowed(1, o) THEN RetryDelay(1, o) ELSE 0,
              file |-> NoPath, from |-> from, cleanFailed |-> cleanFailed]

Writer == [fileIndex |-> fileIndex, currentFilePath |-> currentFilePath,
           currentFileSize |-> currentFileSize]

RECURSIVE AppendLog(_, _, _)
AppendLog(log, msgs, file) ==
    IF msgs = <<>> THEN log
    ELSE AppendLog(Append(log, [m |-> Head(msgs).id, file |-> file,
                                bytes |-> ContentBytes(Head(msgs).len)]),
                   Tail(msgs), file)

SetWriter(w) ==
    /\ fileIndex' = w.fileIndex
    /\ currentFilePath' = w.currentFilePath
    /\ currentFileSize' = w.currentFileSize

\* ------------------------------------------------------------ AsyncQueue
FLUSH_SAFETY_BUFFER == 3

TimerOwner == 0      \* a flush() started by the setInterval callback
StopOwner == -1      \* a flush() started by stop()

\* enqueue: this.queue.length >= this.options.queueSize
QueueFull(q, ao) == Len(q) >= ao.queueSize

\* mutant of DropsWhenFull: 'overflow' discards like 'drop'
DropsWhenFullOrOverflow(ao) == ao.overflowStrategy \in {"drop", "overflow"}

\* enqueue, the switch in the while loop: case 'drop' returns; case 'block'
\* and case 'overflow' fall through to one body, await this.flush()
DropsWhenFull(ao) == ao.overflowStrategy = "drop"

\* mutant of BatchReady: the flush waits for one message more
BatchReadyLate(q, ao) == Len(q) > ao.batchSize

\* enqueue: this.queue.length >= this.options.batchSize
BatchReady(q, ao) == Len(q) >= ao.batchSize

\* mutant of FlushGuard: the isWriting test is missing
FlushGuardNoMutex(writing, q) == q = <<>>

\* flush: if (this.isWriting || this.queue.length === 0) return
FlushGuard(writing, q) == writing \/ q = <<>>

\* flush: this.queue.splice(0, this.options.batchSize) -- the removed part
SpliceBatch(q, ao) == SubSeq(q, 1, Min(ao.batchSize, Len(q)))

\* flush: what splice leaves in this.queue
SpliceRest(q, ao) == SubSeq(q, Min(ao.batchSize, Len(q)) + 1, Len(q))

\* mutants of Unshift: the batch is pushed at the tail, or not put back
UnshiftAtTail(q, messages) == q \o messages
UnshiftLost(q, messages) == q

\* flush, catch: this.queue.unshift(...messages)
Unshift(q, messages) == messages \o q

\* mutant of StopMaxAttempts: stop flushes once, whatever the buffer holds
StopMaxAttemptsOnce(len, ao) == 1

\* stop: Math.ceil(this.queue.length / this.options.batchSize) + FLUSH_SAFETY_BUFFER
StopMaxAttempts(len, ao) ==
    (len + ao.batchSize - 1) \div ao.batchSize + FLUSH_SAFETY_BUFFER

\* The promise of the flush() a caller awaits is resolved: flush returned
\* early, or its writer invocation has settled.
FlushResolved(owner) == ~ \E c \in writerCalls : c.owner = owner

Ids(s) == {s[i].id : i \in 1..Len(s)}

\* ------------------------------------------------------------ event loop
\* A promise continuation is queued (microtasks run before any timer).
MicrotaskPending ==
    \/ \E c \in writerCalls : c.st \in {"appended", "ok", "failed"}
    \/ \E e \in enqueueCalls : FlushResolved(e.m.id)
    \/ stopCall.pc = "flush" /\ FlushResolved(StopOwner)

\* ----------------------------------------------------------- FileManager
\* FileManager.init(): nodeWriter.init() = ensureLogDirectory() followed by
\* initializeCurrentFile().  dirOk says whether the directory can be made.
\* mutant of InitErrorAfter: a later init() forgets the recorded error
InitErrorAfterCleared(err, mkdirFailed) == mkdirFailed

\* NodeWriter._initError after ensureLogDirectory(): it is assigned when
\* mkdirSync throws and nothing ever resets it.
InitErrorAfter(err, mkdirFailed) == err \/ mkdirFailed

\* mutant of NeedsInit: write() initialises whenever no error is recorded
NeedsInitAlways(initialized, err) == ~err

\* FileManager.write: if (!this.isInitialized && !this.initError) this.init()
NeedsInit(initialized, err) == ~initialized /\ ~err

\* FileManager.init() when isInitialized is false: nodeWriter.init() =
\* ensureLogDirectory() followed by initializeCurrentFile(), then the error
\* of the writer is copied.  dirOk says whether mkdirSync succeeds; it is
\* called only when the directory does not exist.
FMInit(fs, day, o, exists, err, dirOk) ==
    LET e == InitErrorAfter(err, ~exists /\ ~dirOk)
    IN  [w |-> initializeCurrentFile(fs, day, o),
         dirExists |-> exists \/ dirOk,
         initError |-> e,
         isInitialized |-> ~e]

\* mkdirSync is called only while the directory does not exist.
DirOutcomes == IF dirExists THEN {TRUE} ELSE BOOLEAN

\* The next write()/writeBatch() would find the current file full and rotate.
RotationDue ==
    LET w0 == IF NeedsInit(isInitialized, initError)
              THEN initializeCurrentFile(files, today, options)
              ELSE Writer
        w1 == checkDateRotation(w0, files, today, options)
    IN  shouldRotateFile(w1.currentFileSize, options)

\* readdirSync and Date.now() are called only by cleanupOldFiles, that is when
\* a write rotates: what readdirSync returns or that it throws, and the time
\* of day.
ListingOutcomes(fs) ==
    IF RotationDue THEN Listings(fs) \cup {ReaddirFails} ELSE {<<>>}

TimeOutcomes == IF RotationDue THEN {0, 1} ELSE {0}

\* ---------------------------------------------------------------- Logger
\* LoggerBase.levelPriority
levelPriority == [debug |-> 0, info |-> 1, warn |-> 2, error |-> 3,
                  silent |-> 999]

\* The levels of the four log methods: debug(), info(), warn(), error().
CallLevels == {"debug", "info", "warn", "error"}

\* Rates and the values of Math.random() are counted in halves: a rate is 0,
\* 1/2 or 1, and Math.random() returns a number in [0, 1), here 0 or 1/2.
Rates == {0, 1, 2}
Randoms == {0, 1}

\* Date.now() when the Logger is constructed: later than any window size
\* after the epoch, so that the first call opens a window.
StartTime == 2 * MaxTicks

\* What one call of a filter predicate does.
FilterOutcomes == {"true", "false", "throw"}

\* Logger.shouldLog
shouldLog(lvl, cur) == levelPriority[lvl] >= levelPriority[cur]

\* Logger.shouldSample: Math.random() < rateByLevel[level]  (rateByLevel holds
\* every level, so the fallback to sampling.rate is never taken)
shouldSample(s, lvl, rnd) == ~s.enabled \/ rnd < s.rateByLevel[lvl]

\* mutant of WindowOver: the window is one millisecond longer
WindowOverLate(t, start, rl) == t - start > rl.windowSize

\* Logger.checkRateLimit: now - this.rlWindowStart >= this.rateLimit.windowSize
WindowOver(t, start, rl) == t - start >= rl.windowSize

\* mutant of EmitsLimitEvent: every dropped call emits the event
EmitsLimitEventAlways(rl, emitted) == rl.warnOnLimitExceeded

\* Logger.checkRateLimit: warnOnLimitExceeded && !rlEventEmittedInWindow
EmitsLimitEvent(rl, emitted) == rl.warnOnLimitExceeded /\ ~emitted

\* The rate limiter fields after checkRateLimit() at time t, with its result
\* (pass), whether the window was reset and whether the event was emitted.
checkRateLimit(L, t) ==
    IF ~L.rateLimit.enabled
    THEN [rlWindowStart |-> L.rlWindowStart,
          rlWindowCount |-> L.rlWindowCount,
          rlEventEmittedInWindow |-> L.rlEventEmittedInWindow,
          pass |-> TRUE, reset |-> FALSE, event |-> FALSE]
    ELSE LET reset == WindowOver(t, L.rlWindowStart, L.rateLimit)
             start == IF reset THEN t ELSE L.rlWindowStart
             count == IF reset THEN 0 ELSE L.rlWindowCount
             emitted == IF reset THEN FALSE ELSE L.rlEventEmittedInWindow
         IN  IF count >= L.rateLimit.maxLogsPerWindow
             THEN [rlWindowStart |-> start, rlWindowCount |-> count,
                   rlEventEmittedInWindow |->
                       emitted \/ EmitsLimitEvent(L.rateLimit, emitted),
                   pass |-> FALSE, reset |-> reset,
                   event |-> EmitsLimitEvent(L.rateLimit, emitted)]
             ELSE [rlWindowStart |-> start, rlWindowCount |-> count + 1,
                   rlEventEmittedInWindow |-> emitted,
                   pass |-> TRUE, reset |-> reset, event |-> FALSE]

\* mutant of TryFilter: the exception of a predicate is not caught
TryFilterNoCatch(r) == r

\* shouldPassFilter: try { return f(entry) } catch { return true }
TryFilter(r) == IF r = "throw" THEN "true" ELSE r

\* Logger.shouldPassFilter, res[i] being what predicate i does when called:
\* "true" or "false", or "throw" when an exception leaves the method.
shouldPassFilter(f, res) ==
    IF ~f.enabled \/ Len(f.filters) = 0 THEN "true"
    ELSE LET results == [i \in 1..Len(f.filters) |-> TryFilter(res[i])]
         IN  IF \E i \in 1..Len(results) : results[i] = "throw" THEN "throw"
             ELSE IF f.mode = "all"
             THEN IF \A i \in 1..Len(results) : results[i] = "true"
                  THEN "true" ELSE "false"
             ELSE IF \E i \in 1..Len(results) : results[i] = "true"
                  THEN "true" ELSE "false"

\* mutant of SampledOut: the sampled-out call takes a place in the window
SampledOutCounted(L) ==
    [L EXCEPT !.metrics.sampledLogs = @ + 1, !.metrics.droppedLogs = @ + 1,
              !.rlWindowCount = @ + 1]

\* Logger.log: this.metrics.sampledLogs++; this.metrics.droppedLogs++; return
SampledOut(L) ==
    [L EXCEPT !.metrics.sampledLogs = @ + 1, !.metrics.droppedLogs = @ + 1]

\* mutant of FilteredOut: the rejected entry gives its place in the window back
FilteredOutRefunded(L) ==
    [L EXCEPT !.metrics.filteredLogs = @ + 1, !.metrics.droppedLogs = @ + 1,
              !.rlWindowCount = IF L.rateLimit.enabled THEN @ - 1 ELSE @]

\* mutant of FilteredOut: the cumulative counter is not incremented
FilteredOutUncounted(L) == [L EXCEPT !.metrics.filteredLogs = @ + 1]

\* Logger.log: this.metrics.filteredLogs++; this.metrics.droppedLogs++; return
FilteredOut(L) ==
    [L EXCEPT !.metrics.filteredLogs = @ + 1, !.metrics.droppedLogs = @ + 1]

\* mutant of Counted: totalLogs counts only the calls that pass the sampling
CountedLate(L, sampled) ==
    IF sampled THEN [L EXCEPT !.metrics.totalLogs = @ + 1] ELSE L

\* Logger.log: this.metrics.totalLogs++ before the gates that follow the
\* level gate
Counted(L, sampled) == [L EXCEPT !.metrics.totalLogs = @ + 1]

\* Logger.writeToFile: this.metrics.fileWrites++ once fileManager.write(msg)
\* has been called; nothing without a FileManager.
writeToFile(L) ==
    IF L.fileManager THEN [L EXCEPT !.metrics.fileWrites = @ + 1] ELSE L

\* The Logger fields after log(level, ...), with the
\* disposition of the call (disp), and what the call did on its way: whether
\* the window was reset, the event emitted, the filter chain evaluated and an
\* exception left the call.  rnd is what Math.random() returns, t what
\* Date.now() returns, res what the filter predicates do.
log(L, lvl, rnd, t, res) ==
    LET quiet == [reset |-> FALSE, event |-> FALSE, filterRan |-> FALSE,
                  threw |-> FALSE, res |-> res]
    IN  IF ~shouldLog(lvl, L.level)
        THEN [L |-> L, disp |-> "level"] @@ quiet
        ELSE
        LET sampled == shouldSample(L.sampling, lvl, rnd)
            L1 == Counted(L, sampled)
        IN  IF ~sampled
            THEN [L |-> SampledOut(L1), disp |-> "sampled"] @@ quiet
            ELSE
            LET rl == checkRateLimit(L1, t)
                L2 == [L1 EXCEPT
                         !.rlWindowStart = rl.rlWindowStart,
                         !.rlWindowCount = rl.rlWindowCount,
                         !.rlEventEmittedInWindow = rl.rlEventEmittedInWindow]
            IN  IF ~rl.pass
                THEN [L |-> [L2 EXCEPT !.metrics.droppedLogs = @ + 1],
                      disp |-> "limited", reset |-> rl.reset,
                      event |-> rl.event, filterRan |-> FALSE,
                      threw |-> FALSE, res |-> res]
                ELSE
                LET ran == L2.filter.enabled
                    pass == IF ran THEN shouldPassFilter(L2.filter, res)
                            ELSE "true"
                IN  [L |-> CASE pass = "false" -> FilteredOut(L2)
                             [] pass = "throw" -> L2
                             [] OTHER ->
                                  [writeToFile(L2) EXCEPT !.metricsN = @ + 1],
                     disp |-> CASE pass = "false" -> "filtered"
                                [] pass = "throw" -> "threw"
                                [] OTHER -> "passed",
                     reset |-> rl.reset, event |-> rl.event,
                     filterRan |-> ran /\ Len(L2.filter.filters) > 0,
                     threw |-> pass = "throw", res |-> res]


\* Logger.handleWriteError: this.metrics.fileWriteErrors++
handleWriteError(mt) == [mt EXCEPT !.fileWriteErrors = @ + 1]

\* LoggerBase.resetMetrics / the initial value of LoggerBase.metrics
ZeroMetrics == [totalLogs |-> 0, sampledLogs |-> 0, droppedLogs |-> 0,
                filteredLogs |-> 0, fileWrites |-> 0, fileWriteErrors |-> 0]

Logger == [level |-> level, sampling |-> sampling, rateLimit |-> rateLimit,
           filter |-> filter, rlWindowStart |-> rlWindowStart,
           rlWindowCount |-> rlWindowCount,
           rlEventEmittedInWindow |-> rlEventEmittedInWindow,
           metrics |-> metrics, metricsN |-> metricsN,
           fileManager |-> fileManager]

SetLogger(L) ==
    /\ rlWindowStart' = L.rlWindowStart
    /\ rlWindowCount' = L.rlWindowCount
    /\ rlEventEmittedInWindow' = L.rlEventEmittedInWindow
    /\ metrics' = L.metrics
    /\ metricsN' = L.metricsN

\* The history of the log calls after the call whose outcome is lg: the
\* calls made, and since the last resetMetrics the calls that passed the
\* level gate and the calls the rate limiter dropped; the evaluations of the
\* filter chain; the window resets; for every call the rate limiter admitted
\* and every rateLimitExceeded event, the number of the window it fell in,
\* and the same for every entry written and every entry the filter rejected;
\* what the predicates did in the last call that reached the filter stage
\* (every: each returned true or threw, some: one did, caught: one threw).
Recorded(h, lg) ==
    LET w == h.windows + (IF lg.reset THEN 1 ELSE 0)
        n == Len(filter.filters)
        fine == {i \in 1..n : lg.res[i] \in {"true", "throw"}}
    IN  [h EXCEPT
           !.chain = IF lg.disp \in {"filtered", "passed", "threw"}
                     THEN [every |-> fine = 1..n, some |-> fine # {},
                           caught |-> \E i \in 1..n : lg.res[i] = "throw"]
                     ELSE @,
           !.logCalls = @ + 1,
           !.levelPassed = @ + (IF lg.disp = "level" THEN 0 ELSE 1),
           !.rateLimited = @ + (IF lg.disp = "limited" THEN 1 ELSE 0),
           !.filterRuns = @ + (IF lg.filterRan THEN 1 ELSE 0),
           !.windows = w,
           !.admits = IF lg.disp \in {"filtered", "passed", "threw"}
                         /\ rateLimit.enabled
                      THEN Append(@, w) ELSE @,
           !.written = IF lg.disp = "passed" /\ rateLimit.enabled
                       THEN Append(@, w) ELSE @,
           !.rejected = IF lg.disp = "filtered" /\ rateLimit.enabled
                        THEN Append(@, w) ELSE @,
           !.rlEvents = IF lg.event THEN Append(@, w) ELSE @,
           !.threw = @ \/ lg.threw]

\* ---------------------------------------------------------------- Init
NoAsync == [enabled |-> FALSE, queueSize |-> 0, batchSize |-> 0,
            overflowStrategy |-> "drop"]

IdleStop == [pc |-> "idle", attempts |-> 0, maxAttempts |-> 0, len0 |-> 0,
             iters |-> 0, pre |-> {}, wasWriting |-> FALSE, quiet |-> TRUE,
             writerFailed |-> FALSE]

\* The fields of a FileManager that has not been used yet.
InitFields ==
    /\ currentFilePath = NoPath
    /\ currentFileSize = 0
    /\ fileIndex = 0
    /\ writerCalls = {}
    /\ compressJobs = <<>>
    /\ queue = <<>>
    /\ isWriting = FALSE
    /\ enqueueCalls = {}
    /\ stopCall = IdleStop
    /\ isInitialized = FALSE
    /\ initError = FALSE
    /\ dirExists = FALSE
    /\ inits = 0
    /\ issued = 0
    /\ appended = <<>>
    /\ dropped = {}
    /\ hist = [appendFailed |-> FALSE, rotations |-> 0,
               requeuedAhead |-> FALSE, flushSkipped |-> FALSE,
               deleted |-> {}, missed |-> FALSE, compressFailed |-> FALSE]
    /\ rlWindowStart = 0
    /\ rlWindowCount = 0
    /\ rlEventEmittedInWindow = FALSE
    /\ metrics = ZeroMetrics
    /\ metricsN = 0
    /\ now = StartTime
    /\ logHist = [logCalls |-> 0, levelPassed |-> 0, rateLimited |-> 0,
                  filterRuns |-> 0, windows |-> 0, admits |-> <<>>,
                  written |-> <<>>, rejected |-> <<>>,
                  rlEvents |-> <<>>, threw |-> FALSE,
                  chain |-> [every |-> TRUE, some |-> FALSE,
                             caught |-> FALSE],
                  fileWriteError |-> 0, onError |-> 0]

\* new Logger(options) with a FileManager and nothing else configured: the
\* defaults of LoggerBase, under which no entry of level info is dropped.
InitGates ==
    /\ level = "info"
    /\ sampling = [enabled |-> FALSE, rate |-> 2,
                   rateByLevel |-> [l \in DOMAIN levelPriority |-> 2]]
    /\ rateLimit = [enabled |-> FALSE, windowSize |-> 1000,
                    maxLogsPerWindow |-> 1000, warnOnLimitExceeded |-> TRUE]
    /\ filter = [enabled |-> FALSE, filters |-> <<>>, mode |-> "all"]
    /\ fileManager = TRUE

\* An empty log directory on day 0.
InitCommon ==
    /\ today = 0
    /\ files = << >>
    /\ InitFields
    /\ InitGates

\* new FileManager(options) : no queue
InitSync ==
    /\ InitCommon
    /\ options \in [maxSize : {2, 3}, maxFiles : {1, 2}, maxAge : {1},
                    compress : {FALSE}, retryCount : {0, 1},
                    retryDelay : {100}]
    /\ asyncOptions = NoAsync
    /\ flushTimer = FALSE
    /\ budget = MaxWrites

\* new FileManager(options, asyncOptions) : the constructor starts the timer
InitAsync ==
    /\ InitCommon
    /\ options \in [maxSize : {2}, maxFiles : {2}, maxAge : {1},
                    compress : {FALSE}, retryCount : {1},
                    retryDelay : {100}]
    /\ asyncOptions \in [enabled : {TRUE}, queueSize : 1..2, batchSize : 1..2,
                         overflowStrategy : {"drop", "block", "overflow"}]
    /\ flushTimer = TRUE
    /\ budget = MaxMsgs

\* ------------------------------------------------------ NodeWriter steps
\* appendToFileWithRetry, attempt i >= 1: the retry timer fired.
WriterRetry(c, ok) ==
    /\ c \in writerCalls
    /\ c.st = "retry"
    /\ ~MicrotaskPending
    /\ IF ok
       THEN /\ files' = appendFileSync(files, currentFilePath, c.bytes)
            /\ appended' = AppendLog(appended, c.msgs, currentFilePath)
            /\ writerCalls' = (writerCalls \ {c}) \cup
                  {[c EXCEPT !.st = "appended", !.tries = @ + 1,
                             !.delay = 0]}
            /\ UNCHANGED hist
       ELSE /\ writerCalls' = (writerCalls \ {c}) \cup
                  {IF AttemptAllowed(c.attempt + 1, options)
                   THEN [c EXCEPT !.attempt = @ + 1, !.tries = @ + 1,
                                  !.delay = RetryDelay(c.attempt + 1, options)]
                   ELSE [c EXCEPT !.st = "failed", !.tries = @ + 1,
                                  !.delay = 0]}
            /\ hist' = [hist EXCEPT !.appendFailed = TRUE]
            /\ UNCHANGED <<files, appended>>
    /\ UNCHANGED <<today, optVars, logVars, writerVars, compressJobs, queueVars, fmVars,
                   issued, dropped>>

\* write()/writeBatch() after the awaited append returned:
\* this.currentFileSize += Buffer.byteLength(content)
WriterFinish(c) ==
    /\ c \in writerCalls
    /\ c.st = "appended"
    /\ currentFileSize' = currentFileSize + c.bytes
    /\ writerCalls' = (writerCalls \ {c}) \cup {[c EXCEPT !.st = "ok"]}
    /\ UNCHANGED <<envVars, optVars, logVars, currentFilePath, fileIndex, compressJobs,
                   queueVars, fmVars, issued, appended, dropped, hist>>

\* ---------------------------------------------------------- FileManager
\* FileManager.init() called by the application before it is initialised
\* (when isInitialized holds the call returns at once).
InitCall(dirOk) ==
    /\ ~isInitialized
    /\ inits < MaxInits
    /\ LET i == FMInit(files, today, options, dirExists, initError, dirOk)
       IN  /\ SetWriter(i.w)
           /\ initError' = i.initError
           /\ isInitialized' = i.isInitialized
           /\ dirExists' = i.dirExists
    /\ inits' = inits + 1
    /\ UNCHANGED <<envVars, optVars, logVars, writerCalls, compressJobs, queueVars,
                   issued, appended, dropped, hist>>

\* ------------------------------------------------- FileManager, no queue
\* Logger.log of an entry that passes every gate, FileManager.write(message)
\* without a queue: lazy init, then the synchronous prefix of
\* NodeWriter.write(message).
WriteCall(len, dirOk, ok, listing, tod) ==
    /\ ~asyncOptions.enabled
    /\ issued < budget
    /\ issued' = issued + 1
    /\ LET lg == log(Logger, "info", 0, now, <<>>)
       IN  /\ lg.disp = "passed"
           /\ SetLogger(lg.L)
           /\ logHist' = Recorded(logHist, lg)
    /\ LET run == NeedsInit(isInitialized, initError)
           i == FMInit(files, today, options, dirExists, initError, dirOk)
           w0 == IF run THEN i.w ELSE Writer
           err == IF run THEN i.initError ELSE initError
       IN  /\ initError' = err
           /\ isInitialized' = IF run THEN i.isInitialized ELSE isInitialized
           /\ dirExists' = IF run THEN i.dirExists ELSE dirExists
           /\ inits' = inits + (IF run THEN 1 ELSE 0)
           /\ IF err
              THEN /\ SetWriter(w0)
                   /\ UNCHANGED <<files, writerCalls, compressJobs, appended,
                                  hist>>
              ELSE LET m == [id |-> issued + 1, len |-> len]
                       bytes == ContentBytes(len)
                       r == WriterBegin(w0, files, today, options, bytes, ok,
                                        listing, tod)
                   IN  /\ SetWriter(r.w)
                       /\ files' = r.fs
                       /\ compressJobs' = compressJobs \o r.job
                       /\ writerCalls' = writerCalls \cup
                             {[owner |-> m.id, kind |-> "write",
                               msgs |-> <<m>>, bytes |-> bytes, st |-> r.st,
                               attempt |-> r.attempt, delay |-> r.delay,
                               tries |-> 1, from |-> r.from,
                               cleanFailed |-> r.cleanFailed]}
                       /\ appended' = IF ok
                                      THEN AppendLog(appended, <<m>>, r.file)
                                      ELSE appended
                       /\ hist' = [hist EXCEPT
                                     !.appendFailed = @ \/ ~ok,
                                     !.rotations =
                                        @ + (IF r.rotated THEN 1 ELSE 0),
                                     !.deleted = @ \cup r.deleted,
                                     !.missed = @ \/ r.missed]
    /\ UNCHANGED <<today, optVars, gateVars, queueVars, dropped>>

\* The promise FileManager.write returned settles: when it is rejected the
\* catch of Logger.writeToFile runs handleWriteError, which counts the error,
\* calls onError and emits fileWriteError.
WriteSettle(c) ==
    /\ c \in writerCalls
    /\ c.kind = "write"
    /\ c.st \in {"ok", "failed"}
    /\ writerCalls' = writerCalls \ {c}
    /\ metrics' = IF c.st = "failed" THEN handleWriteError(metrics)
                  ELSE metrics
    /\ logHist' = IF c.st = "failed"
                  THEN [logHist EXCEPT !.fileWriteError = @ + 1,
                                       !.onError = @ + 1]
                  ELSE logHist
    /\ UNCHANGED <<envVars, optVars, gateVars, rlWindowStart, rlWindowCount,
                   rlEventEmittedInWindow, metricsN, writerVars, compressJobs, queueVars,
                   fmVars, issued, appended, dropped, hist>>

\* mutant of CompressNextPhase: a failed step is not caught
CompressNextPhaseNoCatch(phase, done) ==
    CASE phase = "read" -> "write"
      [] phase = "write" -> "unlink"
      [] OTHER -> "next"

\* compressOldLogs, the body of the loop: readFile and gzip, then writeFile,
\* then unlink; a step that throws ends the work on this file ("next").
CompressNextPhase(phase, done) ==
    IF ~done THEN "next"
    ELSE CASE phase = "read" -> "write"
           [] phase = "write" -> "unlink"
           [] OTHER -> "next"

\* compressOldLogs() resumes after an await: the file at the head of todo
\* has been read and gzipped (phase read), its .gz written (phase write) or
\* the original unlinked (phase unlink).  ok says whether that operation
\* succeeded; a failure is caught and the loop moves on to the next file.
CompressStep(i, ok) ==
    /\ i \in 1..Len(compressJobs)
    /\ ~MicrotaskPending
    /\ LET j == compressJobs[i]
           f == Head(j.todo)
           done == ok /\ (j.phase = "write" \/ f \in DOMAIN files)
           phase == CompressNextPhase(j.phase, done)
           next == NextCompressible(Tail(j.todo), j.today, currentFilePath)
           skipped == IF done THEN j.skipped ELSE j.skipped \cup {f}
       IN  /\ compressJobs' =
                 IF phase # "next"
                 THEN [compressJobs EXCEPT
                         ![i] = [j EXCEPT
                                   !.phase = phase,
                                   !.size = IF j.phase = "read"
                                            THEN files[f] ELSE @]]
                 ELSE IF next = <<>>
                 THEN SubSeq(compressJobs, 1, i - 1)
                      \o SubSeq(compressJobs, i + 1, Len(compressJobs))
                 ELSE [compressJobs EXCEPT
                         ![i] = [j EXCEPT !.todo = next, !.phase = "read",
                                          !.skipped = skipped]]
           /\ files' =
                 IF done /\ j.phase = "write"
                 THEN LET g == FileName(f.day, f.idx, TRUE)
                      IN  [n \in DOMAIN files \cup {g} |->
                             IF n = g THEN j.size ELSE files[n]]
                 ELSE IF done /\ j.phase = "unlink"
                 THEN [n \in DOMAIN files \ {f} |-> files[n]]
                 ELSE files
           /\ hist' = [hist EXCEPT !.compressFailed = @ \/ ~done]
    /\ UNCHANGED <<today, optVars, logVars, writerVars, writerCalls, queueVars, fmVars,
                   issued, appended, dropped>>

\* Midnight passes.
DayTick ==
    /\ today < MaxDay
    /\ today' = today + 1
    /\ UNCHANGED <<files, optVars, logVars, writerVars, writerCalls, compressJobs,
                   queueVars, fmVars, issued, appended, dropped, hist>>

\* The caller awaits each write before it issues the next one.
NextWrites ==
    \/ \E len \in 0..MaxLen, dirOk \in DirOutcomes, ok \in BOOLEAN,
          listing \in ListingOutcomes(files), tod \in TimeOutcomes :
          writerCalls = {} /\ WriteCall(len, dirOk, ok, listing, tod)
    \/ \E dirOk \in DirOutcomes : InitCall(dirOk)
    \/ \E c \in writerCalls, ok \in BOOLEAN : WriterRetry(c, ok)
    \/ \E c \in writerCalls : WriterFinish(c)
    \/ \E c \in writerCalls : WriteSettle(c)
    \/ DayTick

\* options.compress is false: compressOldLogs() is never called.
SpecSync == InitSync /\ [][NextWrites]_vars

\* The same with the steps of compressOldLogs().
NextSync ==
    \/ NextWrites
    \/ \E i \in 1..Len(compressJobs), ok \in BOOLEAN : CompressStep(i, ok)

\* new FileManager(options) with compress: true and room for the files of
\* two days, no queue
InitCompress ==
    /\ InitCommon
    /\ options \in [maxSize : {2}, maxFiles : {3}, maxAge : {1},
                    compress : {TRUE}, retryCount : {1},
                    retryDelay : {100}]
    /\ asyncOptions = NoAsync
    /\ flushTimer = FALSE
    /\ budget = MaxWrites

SpecCompress == InitCompress /\ [][NextSync]_vars

\* new FileManager(options) with the smallest size limit and up to two
\* retries, followed one write further than InitSync.
InitRetain ==
    /\ InitCommon
    /\ options \in [maxSize : {2}, maxFiles : {1, 2}, maxAge : {1},
                    compress : BOOLEAN, retryCount : {1, 2},
                    retryDelay : {100}]
    /\ asyncOptions = NoAsync
    /\ flushTimer = FALSE
    /\ budget = MaxWrites + 1

SpecRetain == InitRetain /\ [][NextSync]_vars

\* ------------------------------------- writes that are not awaited
\* Logger.writeToFile does not await FileManager.write: the application
\* makes its next log call while earlier writes are suspended at their append
\* or in a retry delay.
InitOverlap ==
    /\ InitCommon
    /\ options \in [maxSize : {2, 3}, maxFiles : {2}, maxAge : {1},
                    compress : {FALSE}, retryCount : {1},
                    retryDelay : {100}]
    /\ asyncOptions = NoAsync
    /\ flushTimer = FALSE
    /\ budget = MaxWrites

NextOverlap ==
    \/ \E len \in 0..MaxLen, dirOk \in DirOutcomes, ok \in BOOLEAN,
          listing \in ListingOutcomes(files), tod \in TimeOutcomes :
          WriteCall(len, dirOk, ok, listing, tod)
    \/ \E c \in writerCalls, ok \in BOOLEAN : WriterRetry(c, ok)
    \/ \E c \in writerCalls : WriterFinish(c)
    \/ \E c \in writerCalls : WriteSettle(c)

SpecOverlap == InitOverlap /\ [][NextOverlap]_vars

\* ------------------------------------------------- cleanupOldFiles alone
\* The days of the file names cleanupOldFiles is applied to, and the day it
\* runs: 40, 30, 10 and 1 day before CleanupToday, and CleanupToday itself.
CleanupDays == {0, 10, 30, 39, 40}
CleanupToday == CHOOSE d \in CleanupDays : \A e \in CleanupDays : e <= d
MaxDirFiles == 3     \* files in the directory cleanupOldFiles is applied to

\* The names a directory is filled with: the first file of a day, its
\* compressed form and the second file of the day.
CleanupNames ==
    {FileName(d, 0, FALSE) : d \in CleanupDays}
        \cup {FileName(d, 0, TRUE) : d \in CleanupDays}
        \cup {FileName(d, 1, FALSE) : d \in CleanupDays}

\* A directory left by earlier runs, of at most MaxDirFiles files of one byte.
InitCleanup ==
    /\ today = CleanupToday
    /\ \E S \in SUBSET CleanupNames :
          /\ Cardinality(S) <= MaxDirFiles
          /\ files = [f \in S |-> 1]
    /\ InitFields
    /\ InitGates
    /\ options \in [maxSize : {2}, maxFiles : 1..MaxDirFiles, maxAge : {1, 30},
                    compress : {FALSE}, retryCount : {0},
                    retryDelay : {100}]
    /\ asyncOptions = NoAsync
    /\ flushTimer = FALSE
    /\ budget = 0

\* cleanupOldFiles() runs (options.compress is false: nothing else follows).
CleanupRun(listing, tod) ==
    /\ files' = cleanupOldFiles(files, today, options, listing, tod)
    /\ hist' = [hist EXCEPT !.deleted = @ \cup (DOMAIN files \ DOMAIN files')]
    /\ UNCHANGED <<today, optVars, logVars, writerVars, writerCalls, compressJobs,
                   queueVars, fmVars, issued, appended, dropped>>

NextCleanup ==
    \E listing \in Listings(files) \cup {ReaddirFails}, tod \in {0, 1} :
        CleanupRun(listing, tod)

SpecCleanup == InitCleanup /\ [][NextCleanup]_vars

\* ------------------------------------------------------ AsyncQueue steps
\* flush() called by owner with the buffer q and the writer fields w: the
\* guard, the splice and the synchronous prefix of onFlush = writeBatch.
FlushFrom(w, q, owner, ok, listing, tod) ==
    IF FlushGuard(isWriting, q)
    THEN /\ queue' = q
         /\ SetWriter(w)
         /\ hist' = [hist EXCEPT !.flushSkipped = @ \/ (isWriting /\ q # <<>>)]
         /\ UNCHANGED <<isWriting, files, writerCalls, compressJobs, appended>>
    ELSE LET messages == SpliceBatch(q, asyncOptions)
             bytes == BatchBytes(messages)
             r == WriterBegin(w, files, today, options, bytes, ok, listing, tod)
         IN  /\ isWriting' = TRUE
             /\ queue' = SpliceRest(q, asyncOptions)
             /\ SetWriter(r.w)
             /\ files' = r.fs
             /\ compressJobs' = compressJobs \o r.job
             /\ writerCalls' = writerCalls \cup
                   {[owner |-> owner, kind |-> "flush", msgs |-> messages,
                     bytes |-> bytes, st |-> r.st, attempt |-> r.attempt,
                     delay |-> r.delay, tries |-> 1, from |-> r.from,
                     cleanFailed |-> r.cleanFailed]}
             /\ appended' = IF ok THEN AppendLog(appended, messages, r.file)
                            ELSE appended
             /\ hist' = [hist EXCEPT
                           !.appendFailed = @ \/ ~ok,
                           !.rotations = @ + (IF r.rotated THEN 1 ELSE 0),
                           !.deleted = @ \cup r.deleted,
                           !.missed = @ \/ r.missed]

\* The body of enqueue(m) from the while test on; old holds the suspended
\* invocation that is being resumed (empty when enqueue is being called).
\* turn is the parity of the iterations of the while loop the invocation has
\* begun: an iteration whose flush() returns at once is still a step.
EnqueueLoop(w, m, old, ok, listing, tod) ==
    IF QueueFull(queue, asyncOptions)
    THEN IF DropsWhenFull(asyncOptions)
         THEN /\ dropped' = dropped \cup {m.id}
              /\ enqueueCalls' = enqueueCalls \ old
              /\ SetWriter(w)
              /\ UNCHANGED <<queue, isWriting, files, writerCalls, compressJobs,
                             appended, hist>>
         ELSE /\ FlushFrom(w, queue, m.id, ok, listing, tod)
              /\ enqueueCalls' = (enqueueCalls \ old) \cup
                                    {[m |-> m, pc |-> "overflow",
                                      turn |-> IF old = {} THEN 0
                                               ELSE 1 - (CHOOSE c \in old : TRUE).turn]}
              /\ UNCHANGED dropped
    ELSE LET q1 == Append(queue, m)
         IN  IF BatchReady(q1, asyncOptions)
             THEN /\ FlushFrom(w, q1, m.id, ok, listing, tod)
                  /\ enqueueCalls' = (enqueueCalls \ old) \cup
                                        {[m |-> m, pc |-> "batch", turn |-> 0]}
                  /\ UNCHANGED dropped
             ELSE /\ queue' = q1
                  /\ enqueueCalls' = enqueueCalls \ old
                  /\ SetWriter(w)
                  /\ UNCHANGED <<dropped, isWriting, files, writerCalls,
                                 compressJobs, appended, hist>>

\* Logger.log of an entry that passes every gate, FileManager.write(message)
\* with a queue: lazy init, then the synchronous prefix of
\* asyncQueue.enqueue(message).
EnqueueCall(len, dirOk, ok, listing, tod) ==
    /\ asyncOptions.enabled
    /\ issued < budget
    /\ issued' = issued + 1
    /\ LET lg == log(Logger, "info", 0, now, <<>>)
       IN  /\ lg.disp = "passed"
           /\ SetLogger(lg.L)
           /\ logHist' = Recorded(logHist, lg)
    /\ LET run == NeedsInit(isInitialized, initError)
           i == FMInit(files, today, options, dirExists, initError, dirOk)
           w0 == IF run THEN i.w ELSE Writer
           err == IF run THEN i.initError ELSE initError
       IN  /\ initError' = err
           /\ isInitialized' = IF run THEN i.isInitialized ELSE isInitialized
           /\ dirExists' = IF run THEN i.dirExists ELSE dirExists
           /\ inits' = inits + (IF run THEN 1 ELSE 0)
           /\ IF err
              THEN /\ SetWriter(w0)
                   /\ UNCHANGED <<files, writerCalls, compressJobs, queue,
                                  isWriting, enqueueCalls, stopCall, appended,
                                  dropped, hist>>
              ELSE /\ EnqueueLoop(w0, [id |-> issued + 1, len |-> len], {},
                                  ok, listing, tod)
                   /\ stopCall' = IF stopCall.pc = "idle" THEN stopCall
                                  ELSE [stopCall EXCEPT !.quiet = FALSE]
    /\ UNCHANGED <<today, optVars, gateVars, flushTimer>>

\* enqueue resumes after "await this.flush()".
EnqueueResume(c, ok, listing, tod) ==
    /\ c \in enqueueCalls
    /\ FlushResolved(c.m.id)
    /\ IF c.pc = "batch"
       THEN /\ enqueueCalls' = enqueueCalls \ {c}
            /\ UNCHANGED <<files, writerVars, writerCalls, compressJobs, queue,
                           isWriting, appended, dropped, hist>>
       ELSE EnqueueLoop(Writer, c.m, {c}, ok, listing, tod)
    /\ UNCHANGED <<today, optVars, logVars, flushTimer, stopCall, fmVars, issued>>

\* flush() after "await this.onFlush(messages)": catch and finally.
FlushSettle(c) ==
    /\ c \in writerCalls
    /\ c.kind = "flush"
    /\ c.st \in {"ok", "failed"}
    /\ queue' = IF c.st = "failed" THEN Unshift(queue, c.msgs) ELSE queue
    /\ isWriting' = FALSE
    /\ writerCalls' = writerCalls \ {c}
    /\ hist' = [hist EXCEPT
                  !.requeuedAhead = @ \/ (c.st = "failed" /\ queue # <<>>)]
    /\ stopCall' = IF c.st = "failed" /\ stopCall.pc # "idle"
                   THEN [stopCall EXCEPT !.writerFailed = TRUE]
                   ELSE stopCall
    /\ UNCHANGED <<envVars, optVars, logVars, writerVars, compressJobs, flushTimer,
                   enqueueCalls, fmVars, issued, appended, dropped>>

\* The setInterval callback: if (this.queue.length > 0) this.flush()
TimerTick(ok, listing, tod) ==
    /\ flushTimer
    /\ ~MicrotaskPending
    /\ queue # <<>>
    /\ FlushFrom(Writer, queue, TimerOwner, ok, listing, tod)
    /\ UNCHANGED <<today, optVars, logVars, flushTimer, enqueueCalls, stopCall, fmVars,
                   issued, dropped>>

\* stop() from the while test on, with the invocation's locals in sc.
StopLoop(sc, ok, listing, tod) ==
    IF queue # <<>> /\ sc.attempts < sc.maxAttempts
    THEN IF isWriting
         THEN /\ stopCall' = [sc EXCEPT !.pc = "sleep", !.iters = @ + 1]
              /\ UNCHANGED <<files, writerVars, writerCalls, compressJobs, queue,
                             isWriting, appended, hist>>
         ELSE /\ FlushFrom(Writer, queue, StopOwner, ok, listing, tod)
              /\ stopCall' = [sc EXCEPT !.pc = "flush", !.iters = @ + 1]
    ELSE /\ stopCall' = [sc EXCEPT !.pc = "done"]
         /\ UNCHANGED <<files, writerVars, writerCalls, compressJobs, queue,
                        isWriting, appended, hist>>

\* FileManager.close() = asyncQueue.stop(): the synchronous prefix.
StopCall(ok, listing, tod) ==
    /\ asyncOptions.enabled
    /\ stopCall.pc = "idle"
    /\ flushTimer' = FALSE
    /\ StopLoop([stopCall EXCEPT
                   !.maxAttempts = StopMaxAttempts(Len(queue), asyncOptions),
                   !.attempts = 0,
                   !.len0 = Len(queue),
                   !.pre = Ids(queue) \cup
                           UNION {Ids(c.msgs) : c \in writerCalls},
                   !.wasWriting = isWriting,
                   !.quiet = (enqueueCalls = {})],
                ok, listing, tod)
    /\ UNCHANGED <<today, optVars, logVars, enqueueCalls, fmVars, issued, dropped>>

\* stop() resumes: the 10 ms sleep is over, or its flush() has settled.
StopResume(ok, listing, tod) ==
    /\ \/ stopCall.pc = "sleep" /\ ~MicrotaskPending
       \/ stopCall.pc = "flush" /\ FlushResolved(StopOwner)
    /\ StopLoop([stopCall EXCEPT !.attempts = @ + 1], ok, listing, tod)
    /\ UNCHANGED <<today, optVars, logVars, flushTimer, enqueueCalls, fmVars, issued,
                   dropped>>

NextAsync ==
    \/ \E len \in {0}, dirOk \in DirOutcomes, ok \in BOOLEAN,
          listing \in ListingOutcomes(files), tod \in TimeOutcomes :
          EnqueueCall(len, dirOk, ok, listing, tod)
    \/ \E c \in enqueueCalls, ok \in BOOLEAN,
          listing \in ListingOutcomes(files), tod \in TimeOutcomes :
          EnqueueResume(c, ok, listing, tod)
    \/ \E dirOk \in DirOutcomes : InitCall(dirOk)
    \/ \E c \in writerCalls, ok \in BOOLEAN : WriterRetry(c, ok)
    \/ \E c \in writerCalls : WriterFinish(c)
    \/ \E c \in writerCalls : FlushSettle(c)
    \/ \E ok \in BOOLEAN, listing \in ListingOutcomes(files),
          tod \in TimeOutcomes : TimerTick(ok, listing, tod)
    \/ \E ok \in BOOLEAN, listing \in ListingOutcomes(files),
          tod \in TimeOutcomes : StopCall(ok, listing, tod)
    \/ \E ok \in BOOLEAN, listing \in ListingOutcomes(files),
          tod \in TimeOutcomes : StopResume(ok, listing, tod)

SpecAsync == InitAsync /\ [][NextAsync]_vars

\* The queue in service: enqueue calls, timer ticks and the writer, without
\* close() and without an explicit init().
NextQueue ==
    \/ \E len \in {0}, dirOk \in DirOutcomes, ok \in BOOLEAN,
          listing \in ListingOutcomes(files), tod \in TimeOutcomes :
          EnqueueCall(len, dirOk, ok, listing, tod)
    \/ \E c \in enqueueCalls, ok \in BOOLEAN,
          listing \in ListingOutcomes(files), tod \in TimeOutcomes :
          EnqueueResume(c, ok, listing, tod)
    \/ \E c \in writerCalls, ok \in BOOLEAN : WriterRetry(c, ok)
    \/ \E c \in writerCalls : WriterFinish(c)
    \/ \E c \in writerCalls : FlushSettle(c)
    \/ \E ok \in BOOLEAN, listing \in ListingOutcomes(files),
          tod \in TimeOutcomes : TimerTick(ok, listing, tod)

SpecQueue == InitAsync /\ [][NextQueue]_vars

\* ----------------------------------------- Logger without a FileManager
\* What configureSampling leaves in this.sampling: sampling off, or on with
\* the level warn sampled at the rate 1/2 and the level error at the rate 1.
SamplingOptions ==
    {[enabled |-> FALSE, rate |-> 2,
      rateByLevel |-> [l \in DOMAIN levelPriority |-> 2]]}
    \cup {[enabled |-> TRUE, rate |-> 2,
           rateByLevel |-> [l \in DOMAIN levelPriority |->
                              IF l = "warn" THEN 1 ELSE 2]]}

\* What configureRateLimit leaves in this.rateLimit.
RateLimitOptions ==
    {[enabled |-> FALSE, windowSize |-> 1000, maxLogsPerWindow |-> 1000,
      warnOnLimitExceeded |-> TRUE]}
    \cup [enabled : {TRUE}, windowSize : {2}, maxLogsPerWindow : {0, 1},
          warnOnLimitExceeded : BOOLEAN]

\* The names of the predicates of a chain of n filters.
Chain(n) == [i \in 1..n |-> i]

\* What configureFilter leaves in this.filter.
FilterOptions ==
    {[enabled |-> FALSE, filters |-> <<>>, mode |-> "all"]}
    \cup [enabled : {TRUE}, filters : {Chain(n) : n \in 0..MaxFilters},
          mode : {"all", "any"}]

\* new Logger({ level: 'warn', file: { enabled: false }, sampling, rateLimit,
\* filter }): no FileManager, and a handler for every event.
InitLogger ==
    /\ today = 0
    /\ files = << >>
    /\ InitFields
    /\ options = [maxSize |-> 2, maxFiles |-> 1, maxAge |-> 1,
                  compress |-> FALSE, retryCount |-> 0, retryDelay |-> 100]
    /\ asyncOptions = NoAsync
    /\ flushTimer = FALSE
    /\ budget = 0
    /\ level = "warn"
    /\ sampling \in SamplingOptions
    /\ rateLimit \in RateLimitOptions
    /\ filter \in FilterOptions
    /\ fileManager = FALSE

\* Logger.debug / info / warn / error: one call of Logger.log.
LogCall(lvl, rnd, res) ==
    /\ ~fileManager
    /\ logHist.logCalls < MaxLogs
    /\ LET lg == log(Logger, lvl, rnd, now, res)
       IN  /\ SetLogger(lg.L)
           /\ logHist' = Recorded(logHist, lg)
    /\ UNCHANGED <<envVars, optVars, gateVars, writerVars, writerCalls,
                   compressJobs, queueVars, fmVars, issued, appended, dropped,
                   hist>>

\* LoggerBase.resetMetrics
ResetMetrics ==
    /\ ~fileManager
    /\ metrics' = ZeroMetrics
    /\ metricsN' = 0
    /\ logHist' = [logHist EXCEPT !.levelPassed = 0, !.rateLimited = 0]
    /\ UNCHANGED <<envVars, optVars, gateVars, rlWindowStart, rlWindowCount,
                   rlEventEmittedInWindow, writerVars, writerCalls,
                   compressJobs, queueVars, fmVars, issued, appended, dropped,
                   hist>>

\* A millisecond passes.
Tick ==
    /\ ~fileManager
    /\ now < StartTime + MaxTicks
    /\ now' = now + 1
    /\ UNCHANGED <<envVars, optVars, level, sampling, rateLimit, filter,
                   fileManager, rlWindowStart, rlWindowCount,
                   rlEventEmittedInWindow, metrics, metricsN, logHist,
                   writerVars, writerCalls, compressJobs, queueVars, fmVars,
                   issued, appended, dropped, hist>>

\* Math.random() is called only when the level gate passes and sampling is
\* enabled.
RandomOutcomes(lvl) ==
    IF shouldLog(lvl, level) /\ sampling.enabled THEN Randoms ELSE {0}

\* The predicates are called only when the call reaches the filter chain.
ChainOutcomes(lvl, rnd) ==
    LET n == Len(filter.filters)
    IN  IF log(Logger, lvl, rnd, now, [i \in 1..n |-> "true"]).filterRan
        THEN [1..n -> FilterOutcomes]
        ELSE {[i \in 1..n |-> "true"]}

NextLogger ==
    \/ \E lvl \in CallLevels :
          \E rnd \in RandomOutcomes(lvl) :
             \E res \in ChainOutcomes(lvl, rnd) : LogCall(lvl, rnd, res)
    \/ ResetMetrics
    \/ Tick

SpecLogger == InitLogger /\ [][NextLogger]_vars

\* ======================================================= claims, AsyncQueue
AppendedIds == {appended[i].m : i \in 1..Len(appended)}

\* Messages handed to a writer invocation whose append has not succeeded.
InFlightIds ==
    UNION {Ids(c.msgs) : c \in {x \in writerCalls : x.st \in {"retry", "failed"}}}

\* Messages FileManager.write passed on to enqueue (lazy initialisation can
\* fail only at the first write, and then nothing is ever enqueued).
PassedToEnqueue == IF initError THEN {} ELSE 1..issued

Count(P) == IF P THEN 1 ELSE 0

\* C1: with overflowStrategy = drop the buffer length never exceeds queueSize,
\* also when a failed flush re-queues its batch after other messages were
\* accepted.
C1_DropBounded ==
    asyncOptions.overflowStrategy = "drop" =>
        Len(queue) <= asyncOptions.queueSize

\* C2: when the writer callback throws, the flush puts its whole batch back at
\* the head of the buffer, in order, ahead of everything that was in the buffer.
C2_RequeueAtHead ==
    [][\A c \in writerCalls :
          (c.kind = "flush" /\ c.st = "failed" /\ c \notin writerCalls')
          => /\ Len(queue') = Len(c.msgs) + Len(queue)
             /\ SubSeq(queue', 1, Len(c.msgs)) = c.msgs
             /\ SubSeq(queue', Len(c.msgs) + 1, Len(queue')) = queue]_vars

\* A failed flush has just re-queued its batch ahead of newer messages.
C2_Witness ==
    /\ hist.requeuedAhead
    /\ ~isWriting
    /\ Len(queue) >= 2
    /\ queue[1].id < queue[Len(queue)].id

\* The places the claim C3 lists.
PlacesListed(id) ==
    Count(id \in dropped)
    + Cardinality({i \in 1..Len(queue) : queue[i].id = id})
    + Cardinality({c \in writerCalls :
                      c.st \in {"retry", "failed"} /\ id \in Ids(c.msgs)})
    + Cardinality({i \in 1..Len(appended) : appended[i].m = id})

\* A message held by an enqueue call that waits for room (block / overflow).
HeldByEnqueue(id) ==
    Cardinality({e \in enqueueCalls : e.pc = "overflow" /\ e.m.id = id})

\* C3 as stated: every message passed to enqueue is dropped, in the buffer, in
\* the in-flight batch, or appended exactly once.
C3_Original == \A id \in PassedToEnqueue : PlacesListed(id) = 1

\* C3 amended: ... or held by an enqueue call that is waiting for room.
C3_Conservation ==
    \A id \in PassedToEnqueue : PlacesListed(id) + HeldByEnqueue(id) = 1

\* A message is held by a waiting enqueue while others are in the buffer, in
\* flight again after a failure, and in the file.
C3_Witness ==
    /\ \E e \in enqueueCalls : e.pc = "overflow"
    /\ queue # <<>>
    /\ hist.appendFailed
    /\ appended # <<>>

\* C4: messages are appended in the order of their enqueue calls.
C4_Fifo ==
    \A i, j \in 1..Len(appended) :
        i < j => appended[i].m < appended[j].m

\* C5: at most one writer invocation is in progress; while isWriting holds no
\* flush call starts another one or takes a message out of the buffer.
C5_SingleWriter ==
    /\ [](Cardinality(writerCalls) <= 1 /\ (writerCalls # {} => isWriting))
    /\ [][isWriting =>
             /\ \A c \in writerCalls' :
                   \E c0 \in writerCalls :
                       c0.owner = c.owner /\ c0.msgs = c.msgs
             /\ Ids(queue) \subseteq Ids(queue')]_vars

\* A flush() call was made while a flush was in progress.
C5_Witness == hist.flushSkipped /\ isWriting /\ queue # <<>>

\* C6: close() called with no flush in progress, no enqueue running and no
\* failing writer returns with an empty buffer and everything appended.
C6_CloseDrains ==
    (/\ stopCall.pc = "done"
     /\ ~stopCall.wasWriting
     /\ stopCall.quiet
     /\ ~stopCall.writerFailed)
    => /\ queue = <<>>
       /\ stopCall.pre \subseteq AppendedIds

\* close() needed more than one flush and has returned.
C6_Witness ==
    /\ stopCall.pc = "done"
    /\ ~stopCall.wasWriting
    /\ stopCall.quiet
    /\ ~stopCall.writerFailed
    /\ stopCall.len0 > asyncOptions.batchSize

\* C7: stop() called while a flush is in progress, the writer never failing,
\* returns only when every message accepted before the call is in the file.
C7_StopDuringFlush ==
    (/\ stopCall.pc = "done"
     /\ stopCall.wasWriting
     /\ stopCall.quiet
     /\ ~stopCall.writerFailed)
    => stopCall.pre \subseteq AppendedIds

\* The scheduling JavaScript guarantees: every queued continuation runs, and
\* a timer fires once no continuation is queued.  Calls made by the
\* application (write, close) and the interval timer are not forced.
FairAsync ==
    /\ SpecAsync
    /\ \A id \in 1..MaxMsgs :
          WF_vars(\E c \in enqueueCalls, ok \in BOOLEAN,
                     listing \in ListingOutcomes(files), tod \in TimeOutcomes :
                     c.m.id = id /\ EnqueueResume(c, ok, listing, tod))
    /\ WF_vars(\E c \in writerCalls, ok \in BOOLEAN : WriterRetry(c, ok))
    /\ WF_vars(\E c \in writerCalls : WriterFinish(c))
    /\ WF_vars(\E c \in writerCalls : FlushSettle(c))
    /\ WF_vars(\E ok \in BOOLEAN, listing \in ListingOutcomes(files),
                  tod \in TimeOutcomes : StopResume(ok, listing, tod))

StopRunning == stopCall.pc \in {"sleep", "flush"}

\* C8 (bounded part): stop() disarms the timer, runs its loop body at most
\* ceil(L / batchSize) + 3 times, and discards nothing.
C8_StopBounded ==
    /\ stopCall.pc # "idle" => ~flushTimer
    /\ stopCall.iters <=
          (stopCall.len0 + asyncOptions.batchSize - 1) \div asyncOptions.batchSize
          + 3
    /\ stopCall.pc = "done" =>
          stopCall.pre \subseteq (Ids(queue) \cup InFlightIds \cup AppendedIds)

\* C8: stop() always terminates, within ceil(L / batchSize) + 3 iterations,
\* and leaves unwritten messages in the buffer.
C8_StopTerminates ==
    /\ []C8_StopBounded
    /\ StopRunning ~> (stopCall.pc = "done")

\* With overflowStrategy = drop no enqueue call waits, and the order of C4
\* holds.
C4_FifoDrop == asyncOptions.overflowStrategy = "drop" => C4_Fifo

\* With overflowStrategy = drop no enqueue call loops, and stop() terminates.
C8_StopTerminatesDrop ==
    (asyncOptions.overflowStrategy = "drop" /\ StopRunning)
        ~> (stopCall.pc = "done")

\* ======================================================= claims, NodeWriter
RECURSIVE TotalBytes(_)
TotalBytes(entries) ==
    IF entries = <<>> THEN 0
    ELSE Head(entries).bytes + TotalBytes(Tail(entries))

\* The case of C9: an empty directory at the start, one calendar day, no
\* failed append, more than maxSize bytes appended so far.
C9_Case ==
    /\ today = 0
    /\ ~hist.appendFailed
    /\ TotalBytes(appended) > options.maxSize

WriteBegins ==
    /\ writerCalls = {}
    /\ isInitialized
    /\ currentFilePath.day = today
    /\ Len(appended') = Len(appended) + 1

\* C10: a write that finds the current file below maxSize does not rotate,
\* even when it fills the file to exactly maxSize; a write that finds it at
\* exactly maxSize rotates first and its content goes to the new file.
C10_Boundary ==
    [][/\ (WriteBegins /\ currentFileSize < options.maxSize)
            => /\ fileIndex' = fileIndex
               /\ appended'[Len(appended')].file = currentFilePath
       /\ (WriteBegins /\ currentFilePath \in DOMAIN files
             /\ files[currentFilePath] = options.maxSize)
            => /\ fileIndex' = fileIndex + 1
               /\ currentFilePath' = getIndexedFilePath(today, fileIndex + 1)
               /\ appended'[Len(appended')].file = currentFilePath'
               /\ currentFilePath' # currentFilePath
               /\ currentFileSize' = 0
       /\ (\E c \in writerCalls : c.st = "appended" /\ c \notin writerCalls')
            => fileIndex' = fileIndex]_vars

\* The previous file was filled to exactly maxSize without rotating, and the
\* next write went to the new file.
C10_Witness ==
    /\ fileIndex >= 1
    /\ currentFilePath = getIndexedFilePath(today, fileIndex)
    /\ currentFilePath \in DOMAIN files
    /\ getIndexedFilePath(today, fileIndex - 1) \in DOMAIN files
    /\ files[getIndexedFilePath(today, fileIndex - 1)] = options.maxSize
    /\ ~hist.appendFailed

\* ============================================== claims, NodeWriter state
\* The byte length of the file at path p (0 when there is no such file).
ActualSize(p) == IF p \in DOMAIN files THEN files[p] ELSE 0

\* C11: between writer operations currentFileSize is the byte length of the
\* file at currentFilePath (0 when that file does not exist).
C11_SizeIsTrue ==
    (isInitialized /\ writerCalls = {})
        => currentFileSize = ActualSize(currentFilePath)

\* C12: a write that rotates has advanced fileIndex by exactly one, recomputed
\* currentFilePath and reset currentFileSize to 0 when its content is
\* appended: the content goes to the file at the new path, and no attempt of
\* that write adds a byte to the file that was full.
C12_RotateThenAppend ==
    [][/\ \A c \in writerCalls' :
            (/\ \A d \in writerCalls : d.owner # c.owner
             /\ c.from # NoPath
             /\ c.st = "appended")
            => /\ fileIndex' = c.from.idx + 1
               /\ currentFilePath' = getIndexedFilePath(today, c.from.idx + 1)
               /\ currentFileSize' = 0
               /\ Len(appended') > Len(appended)
               /\ \A i \in (Len(appended) + 1)..Len(appended') :
                     appended'[i].file = currentFilePath'
               /\ c.from \in DOMAIN files'
                     => files'[c.from] = ActualSize(c.from)
       /\ \A c \in writerCalls :
            (/\ c.st = "retry"
             /\ c \notin writerCalls'
             /\ c.from \in DOMAIN files)
            => /\ c.from \in DOMAIN files'
               /\ files'[c.from] = files[c.from]]_vars

\* A write found its file full, rotated, and its first attempt appended to
\* the file at the next index while the full file is still there.
C12_Witness ==
    \E c \in writerCalls :
        /\ c.from # NoPath
        /\ c.st = "appended"
        /\ c.tries = 1
        /\ c.from \in DOMAIN files
        /\ files[c.from] >= options.maxSize
        /\ currentFilePath = getIndexedFilePath(today, c.from.idx + 1)
        /\ currentFilePath \in DOMAIN files
        /\ currentFileSize = 0

\* ================================================= claims, retention
\* The matching files in the directory, and how many days before today the
\* date in a name lies.
Dir == DOMAIN files
AgeDays(f) == today - f.day

\* The sets K of n files of the directory such that no file outside K is more
\* recent than a file of K: the n most recent files.
MostRecent(n) ==
    {K \in SUBSET Dir :
        /\ Cardinality(K) = n
        /\ \A k \in K, d \in Dir \ K : k.day >= d.day}

\* The files older than maxAge days at time of day tod (0: midnight, 1: noon).
TooOld(tod) ==
    {f \in Dir : AgeDays(f) > options.maxAge
                    \/ (AgeDays(f) = options.maxAge /\ tod = 1)}

\* Nothing but deletions: the files that stay keep their size.
OnlyDeletes ==
    /\ DOMAIN files' \subseteq Dir
    /\ \A f \in DOMAIN files' : files'[f] = files[f]

C14_Example(D) ==
    /\ Cardinality(D) = 3
    /\ \A n \in {40, 10, 1} : \E f \in D : today - f.day = n

C15_DiskBound ==
    (today = 0 /\ ~hist.missed) => Cardinality(Dir) <= options.maxFiles + 1

\* ================================================ claims, compression
\* A step of compressOldLogs(): an invocation moves on and no write begins.
CompressMoves == compressJobs' # compressJobs /\ writerCalls' = writerCalls

\* C16: compressOldLogs never writes the .gz of, and never removes, a file
\* dated today or the file at currentFilePath.
C16_SparesCurrent ==
    [][CompressMoves =>
          /\ \A f \in Dir \ DOMAIN files' :
                f.day # today /\ f # currentFilePath
          /\ \A g \in DOMAIN files' \ Dir :
                /\ g.gz
                /\ g.day # today
                /\ FileName(g.day, g.idx, FALSE) # currentFilePath
          /\ currentFilePath' = currentFilePath
          /\ ActualSize(currentFilePath)' = ActualSize(currentFilePath)]_vars

\* A file of an earlier day has been compressed and removed while the file
\* being written and another file dated today are in the directory.
C16_Witness ==
    /\ \E g \in Dir : /\ g.gz
                      /\ g.day # today
                      /\ FileName(g.day, g.idx, FALSE) \notin Dir
    /\ currentFilePath \in Dir
    /\ \E f \in Dir \ {currentFilePath} : ~f.gz /\ f.day = today

\* A step of compressOldLogs() in a FileManager without a queue: an invocation
\* moves on and no write() is called.
CompressOnly == compressJobs' # compressJobs /\ issued' = issued

\* The invocation of compressOldLogs() that is unlinking f.
Unlinking(f) ==
    \E i \in 1..Len(compressJobs) :
        compressJobs[i].phase = "unlink" /\ Head(compressJobs[i].todo) = f

\* C17: compression is best effort.  An invocation unlinks a file only after
\* it wrote the .gz of that file; a step of compression that fails leaves the
\* directory as it is; a step of compression changes nothing of the writer
\* and of the pending writes; and a write fails only when each of its
\* retryCount + 1 append attempts failed, whatever cleanup did.
C17_BestEffort ==
    [][/\ CompressOnly =>
             /\ \A i \in 1..Len(compressJobs') :
                   (/\ compressJobs'[i].phase = "unlink"
                    /\ ~Unlinking(Head(compressJobs'[i].todo)))
                   => LET f == Head(compressJobs'[i].todo)
                      IN  FileName(f.day, f.idx, TRUE) \in DOMAIN files'
             /\ \A f \in Dir \ DOMAIN files' : ~f.gz /\ Unlinking(f)
             /\ \A f \in Dir \cap DOMAIN files' : files'[f] = files[f]
             /\ (hist'.compressFailed /\ ~hist.compressFailed)
                   => files' = files
             /\ writerCalls' = writerCalls
             /\ Writer' = Writer
       /\ \A c \in writerCalls' :
             c.st = "failed" => c.tries = options.retryCount + 1]_vars

\* A step of compression failed and the invocation ended; the file of the
\* earlier day is intact and has no .gz; the write whose rotation started the
\* compression succeeded.
C17_Witness ==
    /\ hist.compressFailed
    /\ compressJobs = <<>>
    /\ \E f \in Dir : /\ ~f.gz
                      /\ f.day # today
                      /\ FileName(f.day, f.idx, TRUE) \notin Dir
    /\ ~hist.appendFailed
    /\ Len(appended) = issued

\* ==================================================== claims, retry
\* The invocation c was before this step (empty when the step calls it).
Earlier(c) == {d \in writerCalls : d.owner = c.owner}

\* C18: appendToFileWithRetry makes at most retryCount + 1 attempts and none
\* after a success; attempt i >= 1 runs when a timer of retryDelay * i fires;
\* the first failure, and no later one, re-resolves the current file; the
\* call fails after exactly retryCount + 1 failed attempts, and a call that
\* fails leaves currentFileSize as the re-resolution set it.
C18_Retry ==
    [][/\ \A c \in writerCalls' :
            /\ c.tries <= options.retryCount + 1
            /\ c.st = "failed" => c.tries = options.retryCount + 1
            /\ c.st = "retry" =>
                  /\ c.attempt = c.tries
                  /\ c.delay = options.retryDelay * c.attempt
            /\ (Earlier(c) = {} /\ c.st # "appended") =>
                  Writer' = initializeCurrentFile(files', today, options)
            /\ \A d \in Earlier(c) :
                  /\ d.st # "retry" => c.tries = d.tries
                  /\ c.tries # d.tries =>
                        /\ c.tries = d.tries + 1
                        /\ d.delay > 0
                        /\ ~MicrotaskPending
                        /\ c.st \in {"retry", "failed"} =>
                              Writer' = Writer /\ files' = files
                        /\ c.st = "appended" =>
                              files' = appendFileSync(files, currentFilePath,
                                                      c.bytes)
       /\ \A d \in writerCalls :
            (d.st = "failed" /\ d \notin writerCalls')
                => currentFileSize' = currentFileSize]_vars

\* A write has failed after two attempts (retryCount = 1), and the size the
\* first failure re-resolved is still the size of the current file.
C18_Witness ==
    /\ options.retryCount = 1
    /\ \E c \in writerCalls : c.st = "failed" /\ c.tries = 2
    /\ currentFilePath \in Dir
    /\ currentFileSize = files[currentFilePath]
    /\ currentFileSize > 0

\* ============================================== claims, initialisation
\* FileManager.write(message) is called in this step.
WriteIsCalled == issued' = issued + 1

C20_ErrorIsPermanent ==
    [][initError =>
          /\ initError'
          /\ ~isInitialized'
          /\ queue' = <<>>
          /\ writerCalls' = {}
          /\ enqueueCalls' = {}
          /\ appended' = <<>>
          /\ files' = <<>>
          /\ WriteIsCalled =>
                /\ inits' = inits
                /\ dirExists' = dirExists
                /\ Writer' = Writer
                /\ dropped' = dropped]_vars

\* The directory could not be made; init() was called again and made it, the
\* error stayed, and a write() that followed was ignored.
C20_Witness ==
    /\ initError
    /\ ~isInitialized
    /\ inits >= 2
    /\ dirExists
    /\ issued >= 1
    /\ appended = <<>>
    /\ queue = <<>>

\* ================================================== claims, Logger
\* C21: every message whose append finally fails after all retries is
\* reported to the Logger once: when the writer invocation that failed is
\* over, fileWriteErrors has grown by one for each of its messages, and so
\* have the fileWriteError events and the calls of onError, with and without
\* a queue.
C21_FailureReported ==
    [][\A c \in writerCalls :
          (c.st = "failed" /\ c \notin writerCalls')
          => /\ metrics'.fileWriteErrors =
                   metrics.fileWriteErrors + Len(c.msgs)
             /\ logHist'.fileWriteError =
                   logHist.fileWriteError + Len(c.msgs)
             /\ logHist'.onError = logHist.onError + Len(c.msgs)]_vars

\* A step that is a call of Logger.log, and what became of the call.
LogIsCalled == logHist'.logCalls = logHist.logCalls + 1
LevelRejected == LogIsCalled /\ logHist'.levelPassed = logHist.levelPassed
SampleDropped == metrics'.sampledLogs = metrics.sampledLogs + 1
RateDropped == logHist'.rateLimited = logHist.rateLimited + 1
FilterDropped == metrics'.filteredLogs = metrics.filteredLogs + 1
Emitted == LogIsCalled /\ metricsN' = metricsN + 1
ReachesRateLimit == LogIsCalled /\ ~LevelRejected /\ ~SampleDropped
ReachesFilter == ReachesRateLimit /\ ~RateDropped

rlVars == <<rlWindowStart, rlWindowCount, rlEventEmittedInWindow>>

\* C22: the gates are evaluated in the order level, sampling, rate limit,
\* filter and stop at the first drop.  A call rejected by the level gate
\* touches nothing; a call dropped by sampling leaves the window start, the
\* window count and the event flag as they are, emits no event and runs no
\* filter; a call dropped by the rate limiter runs no filter; a call dropped
\* by the filter was admitted by the rate limiter.
C22_GateOrder ==
    [][/\ LevelRejected =>
             /\ metrics' = metrics /\ metricsN' = metricsN
             /\ rlVars' = rlVars
             /\ logHist'.filterRuns = logHist.filterRuns
       /\ SampleDropped =>
             /\ rlVars' = rlVars
             /\ logHist'.rlEvents = logHist.rlEvents
             /\ logHist'.windows = logHist.windows
             /\ logHist'.admits = logHist.admits
             /\ logHist'.filterRuns = logHist.filterRuns
             /\ ~RateDropped /\ ~FilterDropped /\ ~Emitted
       /\ RateDropped =>
             /\ logHist'.filterRuns = logHist.filterRuns
             /\ ~FilterDropped /\ ~Emitted
       /\ (FilterDropped /\ rateLimit.enabled) =>
             /\ Len(logHist'.admits) = Len(logHist.admits) + 1
             /\ rlWindowCount' \in {1, rlWindowCount + 1}
             /\ ~Emitted]_vars

\* Calls were sampled out while the window had one place left; the place is
\* still there for the call that took it afterwards, and nothing was dropped
\* by the rate limiter.
C22_Witness ==
    /\ rateLimit.enabled
    /\ rateLimit.maxLogsPerWindow = 1
    /\ rlWindowCount = 1
    /\ logHist.windows = 1
    /\ metrics.sampledLogs = 2
    /\ metrics.droppedLogs = 2
    /\ metrics.totalLogs = 3
    /\ logHist.rateLimited = 0
    /\ logHist.rlEvents = <<>>

\* The calls the rate limiter admitted in window w.
AdmitsIn(w) ==
    Cardinality({i \in 1..Len(logHist.admits) : logHist.admits[i] = w})

\* C23: fixed-window rate limiting.  In no window more than maxLogsPerWindow
\* calls pass the rate limiter, and a call that finds the window full is
\* dropped; a call made when now - rlWindowStart >= windowSize opens a new
\* window at now and is admitted when maxLogsPerWindow >= 1; a call made
\* earlier stays in the window; nothing but a call changes the window.
C23_FixedWindow ==
    /\ [](rateLimit.enabled =>
             /\ \A w \in 1..logHist.windows :
                   AdmitsIn(w) <= rateLimit.maxLogsPerWindow
             /\ rlWindowCount = AdmitsIn(logHist.windows)
             /\ (logHist.windows = 0) = (rlWindowStart = 0))
    /\ [][rateLimit.enabled =>
             /\ ReachesRateLimit =>
                   IF now - rlWindowStart >= rateLimit.windowSize
                   THEN /\ rlWindowStart' = now
                        /\ logHist'.windows = logHist.windows + 1
                        /\ rateLimit.maxLogsPerWindow >= 1 =>
                              /\ ~RateDropped
                              /\ rlWindowCount' = 1
                              /\ logHist'.admits =
                                    Append(logHist.admits, logHist'.windows)
                   ELSE /\ rlWindowStart' = rlWindowStart
                        /\ logHist'.windows = logHist.windows
                        /\ IF rlWindowCount >= rateLimit.maxLogsPerWindow
                           THEN RateDropped /\ rlWindowCount' = rlWindowCount
                           ELSE /\ ~RateDropped
                                /\ rlWindowCount' = rlWindowCount + 1
             /\ ~LogIsCalled => rlVars' = rlVars]_vars

\* A call filled a window of one, a second was dropped, and after windowSize
\* milliseconds a third opened the next window.
C23_Witness ==
    /\ rateLimit.enabled
    /\ rateLimit.maxLogsPerWindow = 1
    /\ logHist.admits = <<1, 2>>
    /\ logHist.logCalls = 3
    /\ logHist.rateLimited = 1
    /\ rlWindowStart = StartTime + rateLimit.windowSize
    /\ rlWindowCount = 1

\* C24: with warnOnLimitExceeded at most one rateLimitExceeded event is
\* emitted per window, however many calls are dropped in it: the first drop
\* of a window emits it, a later drop of that window emits nothing, and the
\* first drop of the next window emits one more.
C24_OneEventPerWindow ==
    /\ [](\A i, j \in 1..Len(logHist.rlEvents) :
             i < j => logHist.rlEvents[i] < logHist.rlEvents[j])
    /\ [][/\ (RateDropped /\ rateLimit.warnOnLimitExceeded) =>
                /\ logHist'.rlEvents # <<>>
                /\ logHist'.rlEvents[Len(logHist'.rlEvents)] = logHist'.windows
                /\ rlEventEmittedInWindow'
          /\ ~RateDropped => logHist'.rlEvents = logHist.rlEvents
          /\ ~rateLimit.warnOnLimitExceeded =>
                logHist'.rlEvents = logHist.rlEvents]_vars

\* Two drops in the first window and one in the second: two events.
C24_Witness ==
    /\ rateLimit.warnOnLimitExceeded
    /\ logHist.rlEvents = <<1, 2>>
    /\ logHist.logCalls - Len(logHist.admits) >= 3
    /\ metrics.droppedLogs >= 3
    /\ metrics.sampledLogs = 0

\* C25 as stated: with the filter enabled an entry passes iff every
\* predicate (mode all), at least one predicate (mode any), returns true or
\* throws; no exception leaves the log call.
C25_Original ==
    [][(ReachesFilter /\ filter.enabled) =>
          /\ Emitted = (IF filter.mode = "all" THEN logHist'.chain.every
                        ELSE logHist'.chain.some)
          /\ Emitted # FilterDropped
          /\ ~logHist'.threw]_vars

\* C25 amended: ... for a chain of at least one predicate; with an empty
\* chain every entry passes, in both modes.
C25_FilterModes ==
    [][(ReachesFilter /\ filter.enabled) =>
          /\ Len(filter.filters) > 0 =>
                Emitted = (IF filter.mode = "all" THEN logHist'.chain.every
                           ELSE logHist'.chain.some)
          /\ Len(filter.filters) = 0 => Emitted
          /\ Emitted # FilterDropped
          /\ ~logHist'.threw]_vars

\* With mode all an entry has passed a chain of two predicates one of which
\* threw, and another entry was dropped by the chain.
C25_Witness ==
    /\ filter.enabled
    /\ filter.mode = "all"
    /\ Len(filter.filters) = 2
    /\ logHist.chain.caught
    /\ logHist.chain.every
    /\ metrics.filteredLogs = 1
    /\ metricsN >= 1
    /\ ~logHist.threw

\* C26: drop accounting.  Since the last resetMetrics droppedLogs =
\* sampledLogs + filteredLogs + the calls the rate limiter dropped, and
\* droppedLogs <= totalLogs; a dropped call adds exactly 1 to droppedLogs and
\* to the counter of its cause only; a call that is not dropped adds nothing
\* to them.
C26_DropAccounting ==
    /\ [](/\ metrics.droppedLogs =
                metrics.sampledLogs + metrics.filteredLogs
                + logHist.rateLimited
          /\ metrics.droppedLogs <= metrics.totalLogs)
    /\ [][LogIsCalled =>
             LET causes == Count(SampleDropped) + Count(RateDropped)
                           + Count(FilterDropped)
             IN  /\ causes <= 1
                 /\ metrics'.droppedLogs = metrics.droppedLogs + causes
                 /\ metrics'.sampledLogs =
                       metrics.sampledLogs + Count(SampleDropped)
                 /\ metrics'.filteredLogs =
                       metrics.filteredLogs + Count(FilterDropped)
                 /\ causes = 0 => (LevelRejected \/ Emitted)]_vars

\* One call was dropped by each of the three gates.
C26_Witness ==
    /\ metrics.sampledLogs = 1
    /\ metrics.filteredLogs = 1
    /\ logHist.rateLimited = 1
    /\ metrics.droppedLogs = 3
    /\ metrics.totalLogs = 3

\* C27: totalLogs is the number of log calls since the last resetMetrics
\* whose level passed the level gate, dropped later or not; a call rejected
\* by the level gate changes no metric.
C27_TotalLogs ==
    /\ [](metrics.totalLogs = logHist.levelPassed)
    /\ [][/\ LevelRejected => (metrics' = metrics /\ metricsN' = metricsN)
          /\ (LogIsCalled /\ ~LevelRejected) =>
                metrics'.totalLogs = metrics.totalLogs + 1]_vars

\* Three calls: one rejected by the level gate, one sampled out, one emitted.
C27_Witness ==
    /\ logHist.logCalls = 3
    /\ metrics.totalLogs = 2
    /\ metrics.sampledLogs = 1
    /\ metricsN = 1

\* ================================================ claims, file size
\* C28: no rotated log file (a .log file that is not the current one) is
\* larger than maxSize bytes.
C28_RotatedWithinMax ==
    \A f \in Dir :
        (~f.gz /\ f # currentFilePath) => files[f] <= options.maxSize

\* ============================================ claims, block / overflow
\* C29: with overflowStrategy block or overflow the buffer length never
\* exceeds queueSize, also when flushes fail and re-queue their batch while
\* other enqueue calls are pending.
C29_BlockBounded ==
    asyncOptions.overflowStrategy \in {"block", "overflow"} =>
        Len(queue) <= asyncOptions.queueSize

\* The enqueue call of message id found the buffer full and has not pushed
\* its message yet.
WaitsForRoom(id) ==
    \E e \in enqueueCalls : e.pc = "overflow" /\ e.m.id = id

\* C30: with overflowStrategy block or overflow an enqueue call that finds
\* the buffer full eventually pushes its message, provided no writer
\* invocation ever fails for good (each succeeds at its first attempt or at a
\* retry); also when a flush is in progress at the moment the full buffer is
\* found.
C30_EnqueueReturns ==
    [](\A c \in writerCalls : c.st # "failed")
        => \A id \in 1..MaxMsgs : WaitsForRoom(id) ~> ~WaitsForRoom(id)

\* ============================================ claims, eager batching
IdSeq(s) == [i \in 1..Len(s) |-> s[i].id]

\* In this step the enqueue call of message id executes this.queue.push: it
\* is called and finds room, or it resumes from the while loop and finds room.
Pushes(id) ==
    /\ id \notin dropped'
    /\ ~WaitsForRoom(id)'
    /\ \/ issued' = issued + 1 /\ id = issued' /\ ~initError'
       \/ WaitsForRoom(id)

\* C31: when the push of an enqueue call brings the buffer length to batchSize
\* or more and no flush is in progress, the writer is invoked in the same
\* step, before the call returns, with the first min(batchSize, length)
\* messages of the buffer in order; the writer is never invoked by a flush
\* with an empty batch or with more than batchSize messages.
C31_EagerBatch ==
    /\ [](\A c \in writerCalls :
            c.kind = "flush" =>
                Len(c.msgs) >= 1 /\ Len(c.msgs) <= asyncOptions.batchSize)
    /\ [][\A id \in 1..MaxMsgs :
            (/\ Pushes(id)
             /\ Len(queue) + 1 >= asyncOptions.batchSize
             /\ ~isWriting)
            => LET ids == Append(IdSeq(queue), id)
                   n == Min(asyncOptions.batchSize, Len(ids))
               IN  /\ \E c \in writerCalls' \ writerCalls :
                         /\ c.kind = "flush"
                         /\ c.owner = id
                         /\ IdSeq(c.msgs) = SubSeq(ids, 1, n)
                   /\ IdSeq(queue') = SubSeq(ids, n + 1, Len(ids))
                   /\ \E e \in enqueueCalls' : e.m.id = id]_vars

\* An enqueue call has pushed the second message of a batch of two and waits
\* for the writer it invoked with both, in order.
C31_Witness ==
    /\ asyncOptions.batchSize = 2
    /\ \E c \in writerCalls, e \in enqueueCalls :
          /\ c.kind = "flush"
          /\ c.owner = e.m.id
          /\ e.pc = "batch"
          /\ Len(c.msgs) = 2
          /\ c.msgs[2].id = c.owner
          /\ c.msgs[1].id < c.owner

\* ============================================ claims, block = overflow
\* In this step the enqueue call of message id evaluates the test of its
\* while loop and finds the buffer full: it is called, or it resumes from
\* "await this.flush()".
FindsFull(id) ==
    /\ QueueFull(queue, asyncOptions)
    /\ \/ issued' = issued + 1 /\ id = issued' /\ ~initError'
       \/ \E e \in enqueueCalls :
             e.m.id = id /\ e.pc = "overflow" /\ e \notin enqueueCalls'

\* C32: block and overflow are behaviourally identical.  Whichever of the
\* two is configured, a call that finds the buffer full does what one rule
\* that does not mention the strategy says: it discards nothing, pushes
\* nothing and stays in its loop; when a flush is in progress the buffer and
\* the writer are left alone, otherwise the writer is invoked with the first
\* min(batchSize, length) messages and the buffer keeps the rest.  (No other
\* code reads overflowStrategy.)
C32_BlockIsOverflow ==
    [][\A id \in 1..MaxMsgs :
         (asyncOptions.overflowStrategy \in {"block", "overflow"}
            /\ FindsFull(id))
         => /\ dropped' = dropped
            /\ WaitsForRoom(id)'
            /\ IF isWriting
               THEN queue' = queue /\ writerCalls' = writerCalls
               ELSE /\ queue' = SpliceRest(queue, asyncOptions)
                    /\ isWriting'
                    /\ \E c \in writerCalls' :
                          /\ writerCalls' = writerCalls \cup {c}
                          /\ c \notin writerCalls
                          /\ c.owner = id
                          /\ c.msgs = SpliceBatch(queue, asyncOptions)]_vars

\* With overflowStrategy overflow a call found the buffer full, flushed a
\* batch and waits in its loop for the writer.
C32_Witness ==
    /\ asyncOptions.overflowStrategy = "overflow"
    /\ \E e \in enqueueCalls, c \in writerCalls :
          /\ e.pc = "overflow"
          /\ c.owner = e.m.id
          /\ c.kind = "flush"
          /\ c.msgs # <<>>

\* ============================================ claims, re-resolution
\* In this step initializeCurrentFile() is the last thing that assigns the
\* writer fields: FileManager.init() runs it, or the first append of a write
\* fails.
Reresolves ==
    \/ inits' = inits + 1 /\ writerCalls' = writerCalls
    \/ \E c \in writerCalls' \ writerCalls :
          c.tries = 1 /\ c.st \in {"retry", "failed"}

\* The uncompressed log files of the day d in the directory fs.
FilesOfDay(fs, d) == {f \in DOMAIN fs : f.day = d /\ ~f.gz}

\* C33: re-resolution resumes today's latest file.  When files of today
\* exist the current file becomes the one with the highest index, with its
\* real size, when that size is below maxSize, and otherwise a fresh file at
\* the next index with size 0; without files of today it is index 0 with size
\* 0.  Afterwards no file of today has an index greater than fileIndex.
C33_ResumesLatest ==
    [][Reresolves =>
         LET T == FilesOfDay(files', today)
         IN  /\ currentFilePath' = getIndexedFilePath(today, fileIndex')
             /\ \A f \in T : f.idx <= fileIndex'
             /\ IF T = {}
                THEN fileIndex' = 0 /\ currentFileSize' = 0
                ELSE LET h == CHOOSE f \in T : \A g \in T : g.idx <= f.idx
                     IN  IF files'[h] < options.maxSize
                         THEN /\ fileIndex' = h.idx
                              /\ currentFileSize' = files'[h]
                         ELSE /\ fileIndex' = h.idx + 1
                              /\ currentFileSize' = 0]_vars

\* ============================================ claims, overlapping writes
\* C34: at most one NodeWriter.write or writeBatch is in progress (begun and
\* not yet returned or thrown) at any time, so that the writer fields are
\* never mutated by two overlapping operations: with a queue, and without one
\* when log calls follow each other while an earlier write is suspended.
C34_OneWriteAtATime ==
    Cardinality({c \in writerCalls : c.st \in {"appended", "retry"}}) <= 1

\* C38: without a queue the messages of successive log calls are appended to
\* a file in call order, also when an earlier write waits in its retry delay
\* while later calls start their writes.
C38_CallOrder ==
    \A i, j \in 1..Len(appended) :
        (i < j /\ appended[i].file = appended[j].file /\ ~asyncOptions.enabled)
            => appended[i].m < appended[j].m

\* ============================================ claims, retention by date
\* In this step a write begins on a day other than the one of the current
\* file: checkDateRotation switches to a file of today.
WriteAfterDateChange ==
    /\ isInitialized
    /\ currentFilePath.day # today
    /\ writerCalls' # writerCalls
    /\ issued' = issued + 1

\* C35: retention is applied when the writer switches to a new file by date
\* change.  After the write that follows a date change no file older than
\* maxAge days is left and at most the maxFiles most recent files remain
\* beside the file the write appends to.
C35_RetentionOnDateChange ==
    [][WriteAfterDateChange =>
         /\ \A f \in DOMAIN files' : ~Expired(f, today, options, 0)
         /\ Cardinality(DOMAIN files') <= options.maxFiles + 1]_vars

\* ============================================ claims, order of retention
\* C36: among the files of one date cleanupOldFiles never deletes a file of a
\* higher rotation index while it keeps one of a lower index, whatever the
\* order in which the directory is listed.
C36_OldestFirst ==
    [][\A f, g \in DOMAIN files :
         (/\ f.day = g.day
          /\ f.idx < g.idx
          /\ g \notin DOMAIN files')
         => f \notin DOMAIN files']_vars

\* ============================================ claims, index within a day
\* C37: within one calendar day fileIndex never decreases, whatever writes,
\* rotations, retention deletions and re-resolutions after a failed append
\* take place.
C37_IndexMonotone ==
    [][(currentFilePath.day = today /\ currentFilePath'.day = today')
         => fileIndex' >= fileIndex]_vars

\* ============================================ claims, enqueue returns
\* The enqueue call of message id has not returned.
EnqueueRunning(id) == \E e \in enqueueCalls : e.m.id = id

\* C39: every enqueue call eventually returns, for every overflow strategy
\* and also when every writer invocation fails; stated for the behaviours in
\* which the timers keep getting their turn (the microtask queue runs empty
\* again and again).
C39_EnqueueTerminates ==
    []<>(~MicrotaskPending)
        => \A id \in 1..MaxMsgs : EnqueueRunning(id) ~> ~EnqueueRunning(id)

\* ============================================ claims, what the limiter counts
\* The entries written, and the entries the filter rejected, among those the
\* rate limiter admitted in window w.
WrittenIn(w) ==
    Cardinality({i \in 1..Len(logHist.written) : logHist.written[i] = w})
RejectedIn(w) ==
    Cardinality({i \in 1..Len(logHist.rejected) : logHist.rejected[i] = w})

\* C40: the window count counts the entries that pass the rate limiter, not
\* the entries written.  An entry the filter rejects has taken its place in
\* the window, so in every window the entries written are at most
\* maxLogsPerWindow minus the filter-rejected entries of that window, and the
\* window count is the sum of the two.
C40_LimiterCountsAdmitted ==
    /\ [](rateLimit.enabled =>
             /\ \A w \in 1..logHist.windows :
                   WrittenIn(w) <= rateLimit.maxLogsPerWindow - RejectedIn(w)
             /\ rlWindowCount = WrittenIn(logHist.windows)
                                   + RejectedIn(logHist.windows))
    /\ [][(FilterDropped /\ rateLimit.enabled) =>
             /\ rlWindowCount' >= 1
             /\ rlWindowCount' =
                   IF logHist'.windows = logHist.windows
                   THEN rlWindowCount + 1 ELSE 1
             /\ logHist'.written = logHist.written]_vars

\* In a window of one the filter rejected the entry that took the place, the
\* next call was dropped by the rate limiter and nothing was written.
C40_Witness ==
    /\ rateLimit.enabled
    /\ rateLimit.maxLogsPerWindow = 1
    /\ logHist.windows = 1
    /\ logHist.rejected = <<1>>
    /\ logHist.written = <<>>
    /\ logHist.rateLimited = 1
    /\ rlWindowCount = 1

====
